---- MODULE Spec2Model ----
(***************************************************************************)
(* Wallet monitoring and transaction-classification engine of TokenWise    *)
(* (BE/src/services/solanaService.ts): the rate limiter, the retry helper, *)
(* the holder cache, the subscription map and the transaction pipeline.    *)
(*                                                                         *)
(* Each component has its own specification over the shared variables; the *)
(* variables a specification does not use stay at their initial values.    *)
(***************************************************************************)
EXTENDS Integers, Sequences, FiniteSets, TLC

VARIABLES
    \* ---- analyzeTransaction applied to one parsed transaction
    tx,             \* the ParsedTransactionWithMeta handed to analyzeTransaction
    walletAddress,  \* the wallet the transaction is analysed for
    analysis,       \* what analyzeTransaction returned: a Transaction or null
    cphase,         \* "input" before the call, "done" after it
    \* ---- RateLimiter and its concurrent callers
    now,            \* Date.now(), in ms
    requests,       \* RateLimiter.requests: the recorded timestamps
    lpc,            \* per caller: "idle", or "sleep" inside the setTimeout of the limiter
    wake,           \* per caller: when its setTimeout is due
    admitted,       \* history: the times at which waitForAvailability returned
    \* ---- RetryHelper.withRetry, one call
    maxRetries,     \* the argument maxRetries
    baseDelay,      \* the argument baseDelay
    rpc,            \* "call": about to invoke operation; "sleep": in the backoff
                    \* setTimeout; "returned" / "thrown": the call is over
    attempt,        \* the loop variable
    invocations,    \* history: the outcome of every invocation of operation
    delays,         \* history: the delay of every backoff
    outcome,        \* what withRetry returned or threw
    \* ---- getTopTokenHolders and its concurrent calls
    topHoldersCache,    \* SolanaService.topHoldersCache
    lastTopHolderFetch, \* SolanaService.lastTopHolderFetch
    hcall,              \* per call: pc ("idle", "fetching"), the now it read on
                        \* entry and its limit
    hret,               \* the latest return of a call: its kind, limit and result
    fetchLog,           \* history: the times at which the upstream query was issued
    lastAnswer,         \* history: the BalanceUpdates of the latest upstream answer
    dbWallets,          \* storage: the wallets table, by address
    \* ---- subscribeToWalletTransactions
    subscriptions,  \* SolanaService.subscriptions: address -> {id, connection}
    subOrder,       \* the keys of SolanaService.subscriptions in insertion order
    live,           \* upstream: the account-change subscriptions that are open
    nextId,         \* per pool member: the next client subscription id
    scall,          \* the running call: pc, walletAddresses, the index of the
                    \* address in turn, the due time of its setTimeout
    attempts,       \* history: the addresses the running call tried, with the result
    trackedBefore,  \* history: the addresses tracked when the running call began
    opened,         \* history: every subscription onAccountChange returned an id for
    subscribed,     \* history: how many addresses were handed to calls so far
    calls,          \* history: how many calls were made so far
    \* ---- handleAccountChange / processTransaction / getWalletTransactionHistory
    ledgerSigs,     \* upstream: the signatures of the wallet, newest first
    ledgerTx,       \* upstream: signature -> the parsed transaction, if it has one
    pl,             \* the running call: kind, pc, phase, limit, signatures, the
                    \* index of the signature in turn, the attempt of withRetry,
                    \* the due time of its setTimeout, transactions, result, and
                    \* as history the signatures whose fetch raised
    insertCalls,    \* history: the records handed to dbManager.insertTransaction
    analysed,       \* history: the signatures analysed, with what came back
    \* ---- unsubscribeAll
    ucall,          \* the running call: pc, the position of its Map iterator, the
                    \* entry whose removeAccountChangeListener is in flight, and
                    \* as history where a notification handler was when the map
                    \* was cleared
    closes,         \* history: the entries the running call tried to close, with
                    \* the result
    \* ---- getConnectionStatus
    stcall,         \* the running call: pc, the due time of its setTimeout, and
                    \* how many calls were made so far
    status,         \* what the latest call returned, and as history the size of
                    \* the map and the length of RateLimiter.requests at its return
    \* ---- dbManager.insertTransaction and its concurrent calls
    dbTransactions, \* storage: the rows of the transactions table, in rowid order
    dbcall,         \* per call: pc ("idle", "stats": the row is written and
                    \* updateWalletStats is to run) and the record it was handed
    delivered,      \* history: the records handed to insertTransaction, with
                    \* whether the call returned or raised
    \* ---- every component
    upstream        \* history: the calls issued to the upstream, each with whether
                    \* a waitForAvailability returned for it

classVars == <<tx, walletAddress, analysis, cphase>>
limVars == <<now, requests, lpc, wake, admitted>>
retryVars == <<maxRetries, baseDelay, rpc, attempt, invocations, delays, outcome>>
holderVars == <<topHoldersCache, lastTopHolderFetch, hcall, hret, fetchLog, lastAnswer,
               dbWallets>>
subVars == <<subscriptions, subOrder, live, nextId, scall, attempts, trackedBefore, opened,
            subscribed, calls>>
unsubVars == <<ucall, closes>>
statusVars == <<stcall, status>>
storageVars == <<dbTransactions, dbcall, delivered>>

pipeVars == <<ledgerSigs, ledgerTx, pl, insertCalls, analysed>>

vars == <<classVars, limVars, retryVars, holderVars, subVars, pipeVars, unsubVars,
          statusVars, storageVars, upstream>>

\* what the actions of one component leave alone
notClass == <<limVars, retryVars, holderVars, subVars, pipeVars, unsubVars,
    statusVars, storageVars>>
notLim == <<classVars, retryVars, holderVars, subVars, pipeVars, unsubVars,
    statusVars, storageVars>>
notRetry == <<classVars, limVars, holderVars, subVars, pipeVars, unsubVars,
    statusVars, storageVars>>
notHolder == <<classVars, limVars, retryVars, subVars, pipeVars, unsubVars,
    statusVars, storageVars>>
notSub == <<classVars, limVars, retryVars, holderVars, pipeVars, unsubVars,
    statusVars, storageVars>>
notSubLim == <<classVars, retryVars, holderVars, pipeVars, unsubVars,
    statusVars, storageVars>>
notPipeLim == <<classVars, retryVars, holderVars, subVars, unsubVars,
    statusVars, storageVars>>

\* ------------------------------------------------------------------ bounds

\* the uiAmounts of a token-balance entry are 0, 100, 140 and 1..MaxAmount
MaxAmount == 0
\* longest preTokenBalances / postTokenBalances list
MaxBalances == 2
\* longest accountKeys list
MaxKeys == 3
\* concurrent callers of waitForAvailability
NCallers == 2
\* the clock runs over the windows 0..MaxWindows
MaxWindows == 0
\* admissions recorded in the history
MaxAdmits == 10
\* largest maxRetries handed to withRetry
MaxRetriesArg == 3
\* concurrent calls of getTopTokenHolders
NHolderCalls == 2
\* upstream holder queries recorded in the history
MaxFetches == 2
\* longest list of holders the upstream answers with
MaxHolders == 2
\* addresses handed to subscribeToWalletTransactions, over all its calls
MaxSubscribes == 6
\* calls of subscribeToWalletTransactions
MaxCalls == 2
\* the holder clock runs over the freshness windows 0..MaxFreshWindows
MaxFreshWindows == 0
\* the signatures the upstream holds for the wallet
MaxSigs == 2
\* records handed to insertTransaction
MaxDeliveries == 3
\* concurrent calls of insertTransaction
NStorageCalls == 2
\* the addresses tracked when unsubscribeAll or getConnectionStatus is called
MaxTracked == 3
\* calls of getConnectionStatus
MaxStatusCalls == 9
\* calls of getConnectionStatus among the other callers of the limiter
MaxOccupancyCalls == 1

\* ------------------------------------------------------------- small helpers

Min(S) == CHOOSE x \in S : \A y \in S : x <= y

Abs(x) == IF x < 0 THEN 0 - x ELSE x

SeqsUpTo(S, n) == UNION {[1..k -> S] : k \in 0..n}

\* Array.prototype.includes
includes(arr, x) == \E i \in 1..Len(arr) : arr[i] = x

\* Array.prototype.slice(0, n)
slice0(arr, n) == SubSeq(arr, 1, IF n < Len(arr) THEN n ELSE Len(arr))

\* ------------------------------------------------------------ the test world

\* the monitored token's mint and one other mint
TOKEN_MINT == "9BB6NFEcjBCtnNLFko2FqVQBq8HHM13kCyYcdQbgpump"
OtherMint == "So11111111111111111111111111111111111111112"

\* an account key that belongs to no protocol
OtherKey == "11111111111111111111111111111111"

\* ----------------------------------------------------------- detectProtocol

\* the fixed table, in the order of its definition (Object.entries keeps the
\* insertion order of string keys)
protocols ==
    << [name |-> "jupiter",
        signatures |-> << "JUP4Fb2cqiRUcaTHdrPC8h2gNsA2ETXiPDD33WcGuJB",
                          "JUP6LkbZbjS1jKKwapdHNy74zcZ3tLUZoi5QNyVTaV4" >>],
       [name |-> "raydium",
        signatures |-> << "675kPX9MHTjS2zt1qfr1NYHuzeLXfQM9H24wFSUt1Mp8",
                          "5Q544fKrFoe6tsEbD7S8EmxGTJYAKtTVhAW5Q5pge4j1" >>],
       [name |-> "orca",
        signatures |-> << "9W959DqEETiGZocYWCQPaJ6sBmUzgfxXfqGeTEdp3aQP",
                          "DjVE6JNiYqPL2QXyCUUh8rNjHrbz9hXHNYt99MQ59qw1" >>] >>

\* mutant: the protocol of the first account key that belongs to any protocol
\* (the loops nested the other way round)
detectProtocolByKeyOrder(accountKeys) ==
    LET hit(k) == {i \in 1..Len(protocols) : includes(protocols[i].signatures, accountKeys[k])}
        ks == {k \in 1..Len(accountKeys) : hit(k) # {}}
    IN  IF ks = {} THEN "unknown" ELSE protocols[Min(hit(Min(ks)))].name

\* mutant: only the first identifier of every protocol is compared
detectProtocolFirstId(accountKeys) ==
    LET hits == {i \in 1..Len(protocols) :
                    \E k \in 1..Len(accountKeys) : protocols[i].signatures[1] = accountKeys[k]}
    IN  IF hits = {} THEN "unknown" ELSE protocols[Min(hits)].name

\* for (const [protocol, signatures] of Object.entries(protocols))
\*   if (accountKeys.some((key) => signatures.includes(key))) return protocol;
\* return "unknown";
detectProtocol(accountKeys) ==
    LET hits == {i \in 1..Len(protocols) :
                    \E k \in 1..Len(accountKeys) : includes(protocols[i].signatures, accountKeys[k])}
    IN  IF hits = {} THEN "unknown" ELSE protocols[Min(hits)].name

\* ---------------------------------------------- calculateTokenBalanceChange

\* balances.find(b => b.owner === address && b.mint === tokenMint): the first match
\* mutant: the entry is matched by its mint alone
findBalanceAnyOwner(balances, address) ==
    LET m == {i \in 1..Len(balances) : balances[i].mint = TOKEN_MINT}
    IN  IF m = {} THEN 0 ELSE balances[Min(m)].uiAmount

findBalance(balances, address) ==
    LET m == {i \in 1..Len(balances) :
                 balances[i].owner = address /\ balances[i].mint = TOKEN_MINT}
    IN  IF m = {} THEN 0 ELSE balances[Min(m)].uiAmount

\* postBalance - preBalance
calculateTokenBalanceChange(preBalances, postBalances, address) ==
    findBalance(postBalances, address) - findBalance(preBalances, address)

\* ------------------------------------------------------- analyzeTransaction

LAMPORTS_PER_SOL == 1000000000

NullAnalysis == [kind |-> "null"]

\* mutant: the amount keeps the sign of the delta, and a zero delta counts as a buy
analyzeTransactionSigned(transaction, address) ==
    IF ~transaction.hasMeta THEN NullAnalysis
    ELSE LET tokenBalanceChange ==
                 calculateTokenBalanceChange(transaction.preTokenBalances,
                                             transaction.postTokenBalances, address)
         IN  IF tokenBalanceChange = 0 THEN NullAnalysis
             ELSE [kind |-> "tx",
                   signature |-> transaction.signature,
                   timestamp |-> transaction.blockTime * 1000,
                   walletAddress |-> address,
                   type |-> IF tokenBalanceChange >= 0 THEN "buy" ELSE "sell",
                   amount |-> tokenBalanceChange,
                   protocol |-> detectProtocol(transaction.accountKeys),
                   priceImpact |-> 0,
                   fee |-> [lamports |-> transaction.fee, per |-> LAMPORTS_PER_SOL],
                   tokenPrice |-> 0]

\* mutant: the record is stamped with the clock of the analysis
analyzeTransactionStamped(transaction, address) ==
    IF ~transaction.hasMeta THEN NullAnalysis
    ELSE LET tokenBalanceChange ==
                 calculateTokenBalanceChange(transaction.preTokenBalances,
                                             transaction.postTokenBalances, address)
         IN  IF tokenBalanceChange = 0 THEN NullAnalysis
             ELSE [kind |-> "tx",
                   signature |-> transaction.signature,
                   timestamp |-> now,
                   walletAddress |-> address,
                   type |-> IF tokenBalanceChange > 0 THEN "buy" ELSE "sell",
                   amount |-> Abs(tokenBalanceChange),
                   protocol |-> detectProtocol(transaction.accountKeys),
                   priceImpact |-> 0,
                   fee |-> [lamports |-> transaction.fee, per |-> LAMPORTS_PER_SOL],
                   tokenPrice |-> 0]

\* mutant: a zero delta is reported as a sell of amount 0
analyzeTransactionNoZeroCheck(transaction, address) ==
    IF ~transaction.hasMeta THEN NullAnalysis
    ELSE LET tokenBalanceChange ==
                 calculateTokenBalanceChange(transaction.preTokenBalances,
                                             transaction.postTokenBalances, address)
         IN  [kind |-> "tx",
              signature |-> transaction.signature,
              timestamp |-> transaction.blockTime * 1000,
              walletAddress |-> address,
              type |-> IF tokenBalanceChange > 0 THEN "buy" ELSE "sell",
              amount |-> Abs(tokenBalanceChange),
              protocol |-> detectProtocol(transaction.accountKeys),
              priceImpact |-> 0,
              fee |-> [lamports |-> transaction.fee, per |-> LAMPORTS_PER_SOL],
              tokenPrice |-> 0]

\* if (!transaction.meta || !transaction.transaction) return null;
\* if (tokenBalanceChange === 0) return null;
\* otherwise the Transaction record
analyzeTransaction(transaction, address) ==
    IF ~transaction.hasMeta THEN NullAnalysis
    ELSE LET protocol == detectProtocol(transaction.accountKeys)
             tokenBalanceChange ==
                 calculateTokenBalanceChange(transaction.preTokenBalances,
                                             transaction.postTokenBalances, address)
         IN  IF tokenBalanceChange = 0 THEN NullAnalysis
             ELSE [kind |-> "tx",
                   signature |-> transaction.signature,
                   timestamp |-> transaction.blockTime * 1000,
                   walletAddress |-> address,
                   type |-> IF tokenBalanceChange > 0 THEN "buy" ELSE "sell",
                   amount |-> Abs(tokenBalanceChange),
                   protocol |-> protocol,
                   priceImpact |-> 0,
                   fee |-> [lamports |-> transaction.fee, per |-> LAMPORTS_PER_SOL],
                   tokenPrice |-> 0]

\* ------------------------------------------- inputs of analyzeTransaction

Amounts == (0..MaxAmount) \cup {40, 100, 140}

\* token-balance entries: the wallet's entry for the monitored mint with every
\* amount, and one entry each of another owner and of another mint
BalanceEntries ==
    {[owner |-> "W1", mint |-> TOKEN_MINT, uiAmount |-> a] : a \in Amounts}
    \cup {[owner |-> "W2", mint |-> TOKEN_MINT, uiAmount |-> 100],
          [owner |-> "W1", mint |-> OtherMint, uiAmount |-> 100]}

BalanceLists == SeqsUpTo(BalanceEntries, MaxBalances)

ProtocolKeys == UNION {{protocols[i].signatures[j] : j \in 1..Len(protocols[i].signatures)} :
                          i \in 1..Len(protocols)}

AccountKeys == ProtocolKeys \cup {OtherKey}

ParsedTransaction(sig, meta, keys, pre, post) ==
    [signature |-> sig, hasMeta |-> meta, blockTime |-> 17, fee |-> 5000,
     accountKeys |-> keys, preTokenBalances |-> pre, postTokenBalances |-> post]

\* a transaction without meta, every pair of balance lists, and every key list
TxInputs(balances) ==
    {ParsedTransaction("sig1", FALSE, <<OtherKey>>, <<>>, <<>>)}
    \cup {ParsedTransaction("sig1", TRUE, <<OtherKey>>, pre, post) :
              pre \in balances, post \in balances}
    \cup {ParsedTransaction("sig1", TRUE, keys, <<>>,
                            <<[owner |-> "W1", mint |-> TOKEN_MINT, uiAmount |-> 100]>>) :
              keys \in SeqsUpTo(AccountKeys, MaxKeys)}

\* a call the engine issues to the upstream, and whether it was issued after a
\* waitForAvailability of its own had returned
UpstreamCall(name, attemptNo, gated) ==
    [call |-> name, attempt |-> attemptNo, admitted |-> gated]

\* -------------------------------------------------------------- RateLimiter

\* new RateLimiter(8, 1000)
maxRequests == 8
timeWindow == 1000

\* mutant: the filter keeps every timestamp
purgeNothing(reqs, n) == reqs

\* this.requests.filter((timestamp) => now - timestamp < this.timeWindow)
purge(reqs, n) == SelectSeq(reqs, LAMBDA timestamp : n - timestamp < timeWindow)

\* mutant: old timestamps are never removed and a full list always waits
waitForAvailabilityNoPurge(reqs, n) ==
    LET full == Len(reqs) >= maxRequests
        waitTime == IF full THEN timeWindow - (n - reqs[1]) ELSE 0
    IN  IF full
        THEN [admit |-> FALSE, requests |-> reqs,
              wake |-> IF waitTime > 0 THEN n + waitTime ELSE n]
        ELSE [admit |-> TRUE, requests |-> Append(reqs, n), wake |-> n]

\* mutant: the wait is computed from the newest timestamp of the window
waitForAvailabilityNewest(reqs, n) ==
    LET kept == purge(reqs, n)
        full == Len(kept) >= maxRequests
        waitTime == IF full THEN timeWindow - (n - kept[Len(kept)]) ELSE 0
    IN  IF full /\ waitTime > 0
        THEN [admit |-> FALSE, requests |-> kept, wake |-> n + waitTime]
        ELSE [admit |-> TRUE, requests |-> Append(kept, n), wake |-> n]

\* mutant: the window is full only above maxRequests
waitForAvailabilityOffByOne(reqs, n) ==
    LET kept == purge(reqs, n)
        full == Len(kept) > maxRequests
        waitTime == IF full THEN timeWindow - (n - kept[1]) ELSE 0
    IN  IF full /\ waitTime > 0
        THEN [admit |-> FALSE, requests |-> kept, wake |-> n + waitTime]
        ELSE [admit |-> TRUE, requests |-> Append(kept, n), wake |-> n]

\* one evaluation of waitForAvailability at time n: the purge, then either the
\* setTimeout(waitTime) before the recursive call, or the push of now
waitForAvailability(reqs, n) ==
    LET kept == purge(reqs, n)
        full == Len(kept) >= maxRequests
        waitTime == IF full THEN timeWindow - (n - kept[1]) ELSE 0
    IN  IF full /\ waitTime > 0
        THEN [admit |-> FALSE, requests |-> kept, wake |-> n + waitTime]
        ELSE [admit |-> TRUE, requests |-> Append(kept, n), wake |-> n]

Callers == 1..NCallers

\* the end of the last window of the clock
Horizon == (MaxWindows + 1) * timeWindow

\* the instants the clock takes: the start of every window and 1 ms before the
\* next one
TimePoints == {k * timeWindow + d : k \in 0..MaxWindows, d \in {0, timeWindow - 1}}

LimInit ==
    /\ now = 0
    /\ requests = <<>>
    /\ lpc = [c \in Callers |-> "idle"]
    /\ wake = [c \in Callers |-> 0]
    /\ admitted = <<>>

\* a caller evaluates waitForAvailability in one turn of the event loop
Evaluate(c) ==
    LET r == waitForAvailability(requests, now)
    IN  /\ requests' = r.requests
        /\ lpc' = [lpc EXCEPT ![c] = IF r.admit THEN "idle" ELSE "sleep"]
        /\ wake' = [wake EXCEPT ![c] = r.wake]
        /\ admitted' = IF r.admit THEN Append(admitted, now) ELSE admitted
        /\ UNCHANGED now

\* await this.rateLimiter.waitForAvailability()
Acquire(c) ==
    /\ lpc[c] = "idle"
    /\ Len(admitted) < MaxAdmits
    /\ Evaluate(c)
    /\ UNCHANGED notLim
    /\ UNCHANGED upstream

\* the setTimeout fires (never early), then return this.waitForAvailability()
Resume(c) ==
    /\ lpc[c] = "sleep"
    /\ now >= wake[c]
    /\ Evaluate(c)
    /\ UNCHANGED notLim
    /\ UNCHANGED upstream

\* time passes
Tick ==
    /\ \E t \in TimePoints : t > now /\ now' = t
    /\ UNCHANGED <<requests, lpc, wake, admitted>>
    /\ UNCHANGED notLim
    /\ UNCHANGED upstream

\* time passes until the earliest setTimeout of a sleeping caller is due
TimerDue ==
    /\ \E c \in Callers : lpc[c] = "sleep"
    /\ \A c \in Callers : lpc[c] = "sleep" => wake[c] > now
    /\ now' = Min({wake[c] : c \in {d \in Callers : lpc[d] = "sleep"}})
    /\ UNCHANGED <<requests, lpc, wake, admitted>>
    /\ UNCHANGED notLim
    /\ UNCHANGED upstream

\* -------------------------------------------------------------- RetryHelper

\* String.prototype.includes on messages held as sequences of words
strIncludes(message, pattern) ==
    \E i \in 0..(Len(message) - Len(pattern)) :
        SubSeq(message, i + 1, i + Len(pattern)) = pattern

\* the errors an operation raises; the last one carries no message
Errors ==
    {[hasMessage |-> TRUE, message |-> <<"429", "Too", "Many", "Requests">>],
     [hasMessage |-> TRUE, message |-> <<"Server", "responded", "with", "429">>],
     [hasMessage |-> TRUE, message |-> <<"Too", "Many", "Requests">>],
     [hasMessage |-> TRUE, message |-> <<"Too", "Many", "Connections">>],
     [hasMessage |-> TRUE, message |-> <<"fetch", "failed">>],
     [hasMessage |-> FALSE, message |-> <<>>]}

\* error.message?.includes("429") || error.message?.includes("Too Many Requests")
isRateLimitError(error) ==
    /\ error.hasMessage
    /\ \/ strIncludes(error.message, <<"429">>)
       \/ strIncludes(error.message, <<"Too", "Many", "Requests">>)

\* Math.pow(2, attempt)
RECURSIVE pow2(_)
pow2(n) == IF n = 0 THEN 1 ELSE 2 * pow2(n - 1)

\* Math.random() * 1000, as setTimeout rounds it
Jitters == {0, 999}

\* mutant: every error is retried
onErrorRetryAll(attemptNo, maxRetriesArg, error) ==
    IF attemptNo = maxRetriesArg THEN "throw" ELSE "retry"

\* mutant: the last attempt is taken to be the one before maxRetries
onErrorOneShort(attemptNo, maxRetriesArg, error) ==
    IF attemptNo + 1 = maxRetriesArg THEN "throw"
    ELSE IF isRateLimitError(error) THEN "retry"
    ELSE "throw"

\* the catch block of withRetry: throw on the last attempt, back off and go on
\* for a rate-limit error, throw for any other error
onError(attemptNo, maxRetriesArg, error) ==
    IF attemptNo = maxRetriesArg THEN "throw"
    ELSE IF isRateLimitError(error) THEN "retry"
    ELSE "throw"

RetryInit ==
    /\ maxRetries \in 0..MaxRetriesArg
    /\ baseDelay = 1000
    /\ rpc = "call"
    /\ attempt = 0
    /\ invocations = <<>>
    /\ delays = <<>>
    /\ outcome = [kind |-> "none"]

RetryIdle ==
    /\ maxRetries = 0
    /\ baseDelay = 1000
    /\ rpc = "idle"
    /\ attempt = 0
    /\ invocations = <<>>
    /\ delays = <<>>
    /\ outcome = [kind |-> "none"]

\* mutant: the delay grows by baseDelay with each attempt
backoffDelayLinear(base, attemptNo, jitter) == base * (attemptNo + 1) + jitter

\* baseDelay * Math.pow(2, attempt) + Math.random() * 1000
backoffDelay(base, attemptNo, jitter) == base * pow2(attemptNo) + jitter

\* what operation may resolve to
Results == {"r1", "r2"}

\* mutant: operation is awaited and its result is not returned
onSuccessNoValue(value, attemptNo) ==
    [kind |-> "returned", attempt |-> attemptNo, value |-> "undefined"]

\* return await operation(): withRetry ends with the value operation resolved to
onSuccess(value, attemptNo) ==
    [kind |-> "returned", attempt |-> attemptNo, value |-> value]

\* return await operation(), operation succeeding
OperationReturns(value) ==
    /\ rpc = "call"
    /\ invocations' = Append(invocations, [ok |-> TRUE, value |-> value])
    /\ rpc' = "returned"
    /\ outcome' = onSuccess(value, attempt)
    /\ UNCHANGED <<maxRetries, baseDelay, attempt, delays>>
    /\ UNCHANGED notRetry
    /\ UNCHANGED upstream

\* operation raises: the catch block
OperationThrows(error) ==
    /\ rpc = "call"
    /\ invocations' = Append(invocations, [ok |-> FALSE, error |-> error])
    /\ IF onError(attempt, maxRetries, error) = "retry"
       THEN /\ \E jitter \in Jitters :
                  delays' = Append(delays, backoffDelay(baseDelay, attempt, jitter))
            /\ rpc' = "sleep"
            /\ UNCHANGED outcome
       ELSE /\ rpc' = "thrown"
            /\ outcome' = [kind |-> "thrown", error |-> error]
            /\ UNCHANGED delays
    /\ UNCHANGED <<maxRetries, baseDelay, attempt>>
    /\ UNCHANGED notRetry
    /\ UNCHANGED upstream

\* the backoff is over: attempt++, then the loop test; past the loop, throw lastError
NextAttempt ==
    /\ rpc = "sleep"
    /\ attempt' = attempt + 1
    /\ IF attempt + 1 <= maxRetries
       THEN rpc' = "call" /\ UNCHANGED outcome
       ELSE /\ rpc' = "thrown"
            /\ outcome' = [kind |-> "thrown",
                            error |-> invocations[Len(invocations)].error]
    /\ UNCHANGED <<maxRetries, baseDelay, invocations, delays>>
    /\ UNCHANGED notRetry
    /\ UNCHANGED upstream

\* ------------------------------------------------------- getTopTokenHolders

\* now - this.lastTopHolderFetch < 30000
HOLDER_TTL == 30000

\* wallets.slice(0,60)
REFRESH_SLICE == 60

\* the BalanceUpdates entries of the upstream answer: Account.Address, Holding
HolderEntries ==
    {[Address |-> "W1", Holding |-> 5], [Address |-> "W2", Holding |-> 3]}

HolderLists == SeqsUpTo(HolderEntries, MaxHolders)

\* data.map(entry => ({address, tokenBalance: parseFloat(Holding || "0"), ...}));
\* firstSeen and lastActivity, the time of the mapping, are left out
toWallet(entry) ==
    [address |-> entry.Address,
     tokenBalance |-> entry.Holding,
     solBalance |-> 0,
     transactionCount |-> 0,
     totalVolume |-> 0]

\* the row INSERT OR REPLACE INTO wallets writes: the columns it names from the
\* wallet, the aggregate columns it does not name at their DEFAULT 0 (an
\* average a/b is held as the pair a, b); the time columns are left out
walletRow(w) ==
    [address |-> w.address,
     token_balance |-> w.tokenBalance,
     sol_balance |-> w.solBalance,
     transaction_count |-> w.transactionCount,
     total_volume |-> w.totalVolume,
     total_buy_volume |-> 0,
     total_sell_volume |-> 0,
     avg_transaction_size |-> [sum |-> 0, count |-> 1],
     largest_transaction |-> 0]

\* INSERT OR REPLACE INTO wallets, one row after the other
RECURSIVE insertWallets(_, _)
insertWallets(table, wallets) ==
    IF wallets = <<>> THEN table
    ELSE LET w == Head(wallets)
         IN  insertWallets([a \in DOMAIN table \cup {w.address} |->
                               IF a = w.address THEN walletRow(w) ELSE table[a]],
                           Tail(wallets))

\* mutant: a cache of exactly the threshold's age still counts as fresh
cacheFreshInclusive(cache, last, n) == Len(cache) # 0 /\ n - last <= HOLDER_TTL

\* this.topHoldersCache.length && now - this.lastTopHolderFetch < 30000
cacheFresh(cache, last, n) == Len(cache) # 0 /\ n - last < HOLDER_TTL

\* mutant: the fetched wallets are added to the cached ones
replaceCacheMerging(cache, wallets) == cache \o wallets

\* this.topHoldersCache = wallets
replaceCache(cache, wallets) == wallets

HolderCalls == 1..NHolderCalls

Limits == {1, 60}

\* the instants the holder clock takes: the start of every freshness window
\* and 1 ms before the next, up to the start of window MaxFreshWindows + 1
HolderTimePoints ==
    {k * HOLDER_TTL + d : k \in 0..MaxFreshWindows, d \in {0, HOLDER_TTL - 1}}
    \cup {(MaxFreshWindows + 1) * HOLDER_TTL}

IdleCall == [pc |-> "idle", now |-> 0, limit |-> 0]

HolderInit ==
    /\ topHoldersCache = <<>>
    /\ lastTopHolderFetch = 0
    /\ hcall = [c \in HolderCalls |-> IdleCall]
    /\ hret = [kind |-> "none"]
    /\ fetchLog = <<>>
    /\ lastAnswer = <<>>
    /\ dbWallets = <<>>

\* getTopTokenHolders(limit) up to its return from the cache or its await fetch(...)
GetTopTokenHolders(c, limit) ==
    /\ hcall[c].pc = "idle"
    /\ IF cacheFresh(topHoldersCache, lastTopHolderFetch, now)
       THEN /\ hret' = [kind |-> "cached", limit |-> limit,
                        result |-> slice0(topHoldersCache, limit)]
            /\ UNCHANGED <<hcall, fetchLog>>
       ELSE /\ Len(fetchLog) < MaxFetches
            /\ hcall' = [hcall EXCEPT ![c] =
                            [pc |-> "fetching", now |-> now, limit |-> limit]]
            /\ fetchLog' = Append(fetchLog, now)
            /\ UNCHANGED hret
    /\ UNCHANGED <<topHoldersCache, lastTopHolderFetch, lastAnswer, dbWallets>>
    /\ UNCHANGED notHolder
    /\ upstream' = IF cacheFresh(topHoldersCache, lastTopHolderFetch, now)
                    THEN upstream
                    ELSE upstream \cup {UpstreamCall("fetch", 0, FALSE)}

\* the upstream answers: map, insertWallet for each, replace the cache, stamp it
\* with the now read on entry, return wallets.slice(0,60)
HolderResponse(c, data) ==
    /\ hcall[c].pc = "fetching"
    /\ LET wallets == [i \in 1..Len(data) |-> toWallet(data[i])]
       IN  /\ dbWallets' = insertWallets(dbWallets, wallets)
           /\ topHoldersCache' = replaceCache(topHoldersCache, wallets)
           /\ lastAnswer' = data
           /\ lastTopHolderFetch' = hcall[c].now
           /\ hret' = [kind |-> "refreshed", limit |-> hcall[c].limit,
                       result |-> slice0(wallets, REFRESH_SLICE)]
    /\ hcall' = [hcall EXCEPT ![c] = IdleCall]
    /\ UNCHANGED fetchLog
    /\ UNCHANGED notHolder
    /\ UNCHANGED upstream

\* mutant: the error is caught and an empty list is returned
holderRejectionSwallowed == [kind |-> "refreshed", limit |-> 0, result |-> <<>>]

\* await fetch(...) and await response.json() stand in no try block: the error
\* rejects the promise getTopTokenHolders returned
holderRejection == [kind |-> "thrown"]

\* fetch or response.json() raises: the error goes to the caller
HolderFailure(c) ==
    /\ hcall[c].pc = "fetching"
    /\ hcall' = [hcall EXCEPT ![c] = IdleCall]
    /\ hret' = holderRejection
    /\ UNCHANGED <<topHoldersCache, lastTopHolderFetch, fetchLog, lastAnswer, dbWallets>>
    /\ UNCHANGED notHolder
    /\ UNCHANGED upstream

\* time passes
HolderTick ==
    /\ \E t \in HolderTimePoints : t > now /\ now' = t
    /\ UNCHANGED <<requests, lpc, wake, admitted>>
    /\ UNCHANGED notLim
    /\ UNCHANGED upstream

\* --------------------------------------------- subscribeToWalletTransactions

\* for (let i = 0; i < 3; i++) this.connectionPool.push(new Connection(...))
POOL_SIZE == 3

\* const batchSize = 5
batchSize == 5

\* setTimeout(resolve, 200) between batches
BATCH_PAUSE == 200

connectionPool == 1..POOL_SIZE

\* this.connection, the handle of the constructor that is in no pool
defaultConnection == 0

\* Math.floor(Math.random() * this.connectionPool.length), Math.random() being
\* at least 0 and less than 1: the array indexes 0 .. length - 1
poolIndexes == 0..(Cardinality(connectionPool) - 1)

\* mutant: the index is taken one too far
memberAtOffByOne(index) ==
    IF index + 2 \in connectionPool THEN index + 2 ELSE defaultConnection

\* this.connectionPool[index] || this.connection: array index i is pool member
\* i + 1, past the array the default handle
memberAt(index) ==
    IF index + 1 \in connectionPool THEN index + 1 ELSE defaultConnection

\* the handles getConnection() can return
getConnection == {memberAt(index) : index \in poolIndexes}

\* the wallet addresses of the monitoring list, all distinct
WalletList == <<"W1", "W2", "W3", "W4", "W5", "W6", "W7", "W8">>

\* the lists handed to a call: the prefixes of the monitoring list, and a list
\* that names one address twice
SubscribeInputs ==
    {SubSeq(WalletList, 1, n) : n \in 0..MaxSubscribes} \cup {<<"W1", "W1">>}

\* this.subscriptions.set(address, { id, connection })
mapSet(map, address, value) ==
    [a \in DOMAIN map \cup {address} |-> IF a = address THEN value ELSE map[a]]

\* a Map keeps its keys in insertion order; set on a key it holds keeps its place
keysAfterSet(map, order, address) ==
    IF address \in DOMAIN map THEN order ELSE Append(order, address)

\* where the call goes after the k-th of n addresses: the next address, the
\* pause after a full batch when addresses remain, or the end of the call
afterAddress(k, n) ==
    IF k >= n THEN "done"
    ELSE IF k % batchSize = 0 THEN "pause"
    ELSE "loop"

\* mutant: an error leaves the loops
onSubscribeErrorAbort(k, n) == "done"

\* catch (error) { console.error(...) } inside the inner loop: go on
onSubscribeError(k, n) == afterAddress(k, n)

\* await new Promise((resolve) => setTimeout(resolve, 200)) between batches
pauseEnd(pc, n) == IF pc = "pause" THEN n + BATCH_PAUSE ELSE 0

IdleSubscribe == [pc |-> "idle", walletAddresses |-> <<>>, k |-> 0, wake |-> 0]

SubInit ==
    /\ subscriptions = <<>>
    /\ subOrder = <<>>
    /\ live = {}
    /\ nextId = [c \in connectionPool |-> 0]
    /\ scall = IdleSubscribe
    /\ attempts = <<>>
    /\ trackedBefore = {}
    /\ opened = live
    /\ subscribed = 0
    /\ calls = 0

\* subscribeToWalletTransactions(walletAddresses) is called
StartSubscribe(addresses) ==
    /\ scall.pc \in {"idle", "done"}
    /\ subscribed + Len(addresses) <= MaxSubscribes
    /\ calls < MaxCalls
    /\ scall' = [pc |-> IF Len(addresses) = 0 THEN "done" ELSE "loop",
                 walletAddresses |-> addresses, k |-> 1, wake |-> 0]
    /\ attempts' = <<>>
    /\ trackedBefore' = DOMAIN subscriptions
    /\ subscribed' = subscribed + Len(addresses)
    /\ calls' = calls + 1
    /\ UNCHANGED <<subscriptions, subOrder, live, nextId, opened>>
    /\ UNCHANGED notSub
    /\ UNCHANGED upstream

\* the call is at an address and runs: at the top of the loop, or its
\* setTimeout (of the limiter, or between batches) is due
SubscribeReady ==
    /\ scall.k <= Len(scall.walletAddresses)
    /\ \/ scall.pc = "loop"
       \/ scall.pc \in {"limited", "pause"} /\ now >= scall.wake

\* the limiter admits the call, and onAccountChange on a pool member returns
\* an id: this.subscriptions.set(address, { id: subscriptionId, connection })
SubscribeAddress(connection) ==
    /\ SubscribeReady
    /\ LET r == waitForAvailability(requests, now)
           address == scall.walletAddresses[scall.k]
           id == nextId[connection]
       IN  /\ r.admit
           /\ requests' = r.requests
           /\ nextId' = [nextId EXCEPT ![connection] = id + 1]
           /\ live' = live \cup {[connection |-> connection, id |-> id,
                                   address |-> address]}
           /\ subscriptions' = mapSet(subscriptions, address,
                                      [id |-> id, connection |-> connection])
           /\ subOrder' = keysAfterSet(subscriptions, subOrder, address)
           /\ attempts' = Append(attempts, [address |-> address, ok |-> TRUE])
           /\ opened' = opened \cup {[connection |-> connection, id |-> id,
                                       address |-> address]}
           /\ scall' = [scall EXCEPT
                          !.pc = afterAddress(scall.k, Len(scall.walletAddresses)),
                          !.k = scall.k + 1,
                          !.wake = pauseEnd(afterAddress(scall.k, Len(scall.walletAddresses)),
                                            now)]
    /\ UNCHANGED <<trackedBefore, subscribed, calls>>
    /\ UNCHANGED <<now, lpc, wake, admitted>>
    /\ UNCHANGED notSubLim
    /\ upstream' = upstream \cup {UpstreamCall("onAccountChange", 0, TRUE)}

\* the limiter admits the call, and new PublicKey(address) or onAccountChange
\* raises: the catch block
SubscribeThrows ==
    /\ SubscribeReady
    /\ LET r == waitForAvailability(requests, now)
           address == scall.walletAddresses[scall.k]
       IN  /\ r.admit
           /\ requests' = r.requests
           /\ attempts' = Append(attempts, [address |-> address, ok |-> FALSE])
           /\ scall' = [scall EXCEPT
                          !.pc = onSubscribeError(scall.k, Len(scall.walletAddresses)),
                          !.k = scall.k + 1,
                          !.wake = pauseEnd(onSubscribeError(scall.k,
                                                             Len(scall.walletAddresses)),
                                            now)]
    /\ UNCHANGED <<subscriptions, subOrder, live, nextId, trackedBefore, opened, subscribed,
                   calls>>
    /\ UNCHANGED <<now, lpc, wake, admitted>>
    /\ UNCHANGED notSubLim
    /\ upstream' = upstream \cup {UpstreamCall("onAccountChange", 0, TRUE)}

\* the window of the limiter is full: the call sleeps inside waitForAvailability
SubscribeWaits ==
    /\ SubscribeReady
    /\ LET r == waitForAvailability(requests, now)
       IN  /\ ~r.admit
           /\ requests' = r.requests
           /\ scall' = [scall EXCEPT !.pc = "limited", !.wake = r.wake]
    /\ UNCHANGED <<subscriptions, subOrder, live, nextId, attempts, trackedBefore, opened,
                   subscribed, calls>>
    /\ UNCHANGED <<now, lpc, wake, admitted>>
    /\ UNCHANGED notSubLim
    /\ UNCHANGED upstream

\* before the first call, other calls of the engine take the limiter's window
OtherCallersFillWindow ==
    /\ calls = 0
    /\ pl.pc = "idle"
    /\ Len(purge(requests, now)) < maxRequests
    /\ requests' = purge(requests, now)
                    \o [i \in 1..(maxRequests - Len(purge(requests, now))) |-> now]
    /\ UNCHANGED <<now, lpc, wake, admitted>>
    /\ UNCHANGED notLim
    /\ UNCHANGED upstream

\* time passes until the setTimeout of the call is due
SubscribeTick ==
    /\ scall.pc \in {"limited", "pause"}
    /\ now < scall.wake
    /\ scall.wake <= Horizon
    /\ now' = scall.wake
    /\ UNCHANGED <<requests, lpc, wake, admitted>>
    /\ UNCHANGED notLim
    /\ UNCHANGED upstream

\* ----------------------------------------------------------- unsubscribeAll

NoEntry == [address |-> "", id |-> 0, connection |-> 0]

\* mutant: the close is issued on the first pool member, whatever the entry holds
entryAtFirstMember(map, order, k) ==
    [address |-> order[k], id |-> map[order[k]].id, connection |-> 1]

\* the k-th entry of this.subscriptions.entries(): [address, { id, connection }]
entryAt(map, order, k) ==
    [address |-> order[k], id |-> map[order[k]].id, connection |-> map[order[k]].connection]

IdleUnsubscribe == [pc |-> "idle", k |-> 0, cur |-> NoEntry, handler |-> "idle"]

UnsubInit ==
    /\ ucall = IdleUnsubscribe
    /\ closes = <<>>

\* the state a call subscribeToWalletTransactions(the first n addresses) leaves
\* when every onAccountChange succeeded, conn[k] being the pool member picked
\* for the k-th address: ids count up per pool member, the limiter holds the n
\* admissions
trackedId(conn, k) == Cardinality({j \in 1..(k - 1) : conn[j] = conn[k]})

Tracked(n, conn) ==
    /\ subOrder = SubSeq(WalletList, 1, n)
    /\ subscriptions = [a \in {WalletList[k] : k \in 1..n} |->
                          LET k == CHOOSE j \in 1..n : WalletList[j] = a
                          IN  [id |-> trackedId(conn, k), connection |-> conn[k]]]
    /\ live = {[connection |-> conn[k], id |-> trackedId(conn, k),
                address |-> WalletList[k]] : k \in 1..n}
    /\ nextId = [c \in connectionPool |-> Cardinality({j \in 1..n : conn[j] = c})]
    /\ scall = [pc |-> "done", walletAddresses |-> SubSeq(WalletList, 1, n),
                k |-> n + 1, wake |-> 0]
    /\ attempts = [k \in 1..n |-> [address |-> WalletList[k], ok |-> TRUE]]
    /\ trackedBefore = {}
    /\ opened = live
    /\ subscribed = n
    /\ calls = 1
    /\ now = 0
    /\ requests = [k \in 1..n |-> 0]
    /\ lpc = [c \in Callers |-> "idle"]
    /\ wake = [c \in Callers |-> 0]
    /\ admitted = <<>>
    /\ upstream = IF n = 0 THEN {} ELSE {UpstreamCall("onAccountChange", 0, TRUE)}

\* where unsubscribeAll goes after the k-th of n entries: the next entry, or
\* past the loop to this.subscriptions.clear()
afterClose(k, n) == IF k < n THEN "closing" ELSE "clear"

\* mutant: a close that fails ends the call with its error
onCloseErrorAbort(k, n) == "thrown"

\* catch (err) { console.warn(...) } inside the loop: go on
onCloseError(k, n) == afterClose(k, n)

\* the call moves on from the entry it is at
UnsubscribeStep(next) ==
    IF next = "closing"
    THEN /\ ucall' = [ucall EXCEPT !.pc = "closing", !.k = ucall.k + 1,
                                   !.cur = entryAt(subscriptions, subOrder, ucall.k + 1)]
         /\ upstream' = upstream \cup
                           {UpstreamCall("removeAccountChangeListener", 0, FALSE)}
         /\ UNCHANGED <<subscriptions, subOrder>>
    ELSE IF next = "clear"
    THEN /\ ucall' = [ucall EXCEPT !.pc = "done", !.cur = NoEntry, !.handler = pl.pc]
         /\ subscriptions' = <<>>
         /\ subOrder' = <<>>
         /\ UNCHANGED upstream
    ELSE /\ ucall' = [ucall EXCEPT !.pc = "thrown", !.cur = NoEntry]
         /\ UNCHANGED <<subscriptions, subOrder, upstream>>

\* unsubscribeAll() is called: up to the first await, or to the end when the
\* map is empty
UnsubscribeAll ==
    /\ ucall.pc = "idle"
    /\ closes' = <<>>
    /\ UnsubscribeStep(afterClose(0, Len(subOrder)))
    /\ UNCHANGED <<live, nextId, scall, attempts, trackedBefore, opened, subscribed, calls>>
    /\ UNCHANGED <<classVars, limVars, retryVars, holderVars, pipeVars, statusVars,
                   storageVars>>

\* connection.removeAccountChangeListener(id) returns
CloseReturns ==
    /\ ucall.pc = "closing"
    /\ live' = {l \in live : ~(l.connection = ucall.cur.connection /\ l.id = ucall.cur.id)}
    /\ closes' = Append(closes, [entry |-> ucall.cur, ok |-> TRUE])
    /\ UnsubscribeStep(afterClose(ucall.k, Len(subOrder)))
    /\ UNCHANGED <<nextId, scall, attempts, trackedBefore, opened, subscribed, calls>>
    /\ UNCHANGED <<classVars, limVars, retryVars, holderVars, pipeVars, statusVars,
                   storageVars>>

\* connection.removeAccountChangeListener(id) raises: the catch block
CloseThrows ==
    /\ ucall.pc = "closing"
    /\ closes' = Append(closes, [entry |-> ucall.cur, ok |-> FALSE])
    /\ UnsubscribeStep(onCloseError(ucall.k, Len(subOrder)))
    /\ UNCHANGED <<live, nextId, scall, attempts, trackedBefore, opened, subscribed, calls>>
    /\ UNCHANGED <<classVars, limVars, retryVars, holderVars, pipeVars, statusVars,
                   storageVars>>

\* ------------------------------------------------------ getConnectionStatus

\* the slots getSlot answers with
Slots == {0, 1}

IdleStatus == [pc |-> "idle", wake |-> 0, n |-> 0]

NoStatus == [kind |-> "none"]

StatusInit ==
    /\ stcall = IdleStatus
    /\ status = NoStatus

\* return { rpcConnected, activeSubscriptions: this.subscriptions.size,
\*          rateLimitInfo: { requestsInWindow: this.rateLimiter["requests"].length,
\*                           maxRequests: this.rateLimiter["maxRequests"] } }
statusOf(slot, map, reqs) ==
    [rpcConnected |-> slot > 0,
     activeSubscriptions |-> Cardinality(DOMAIN map),
     rateLimitInfo |-> [requestsInWindow |-> Len(reqs), maxRequests |-> maxRequests]]

\* the catch block: return { rpcConnected: false, activeSubscriptions:
\* this.subscriptions.size, rateLimitInfo: { requestsInWindow: 0, maxRequests: 0 } }
statusOnError(map) ==
    [rpcConnected |-> FALSE,
     activeSubscriptions |-> Cardinality(DOMAIN map),
     rateLimitInfo |-> [requestsInWindow |-> 0, maxRequests |-> 0]]

\* the result of a call, with the state of the service at its return
Returned(result) ==
    [kind |-> "returned", result |-> result,
     tracked |-> Cardinality(DOMAIN subscriptions), recorded |-> Len(requests)]

\* await this.rateLimiter.waitForAvailability(), then getSlot() is issued
StatusAcquire ==
    LET r == waitForAvailability(requests, now)
    IN  /\ requests' = r.requests
        /\ IF r.admit
           THEN /\ stcall' = [stcall EXCEPT !.pc = "probe", !.wake = 0]
                /\ upstream' = upstream \cup {UpstreamCall("getSlot", 0, TRUE)}
           ELSE /\ stcall' = [stcall EXCEPT !.pc = "limited", !.wake = r.wake]
                /\ UNCHANGED upstream
        /\ UNCHANGED <<now, lpc, wake, admitted, status>>
        /\ UNCHANGED <<classVars, retryVars, holderVars, subVars, pipeVars, unsubVars,
                   storageVars>>

\* getConnectionStatus() is called
GetConnectionStatus ==
    /\ stcall.pc \in {"idle", "done"}
    /\ stcall.n < MaxStatusCalls
    /\ LET r == waitForAvailability(requests, now)
       IN  /\ requests' = r.requests
           /\ IF r.admit
              THEN /\ stcall' = [pc |-> "probe", wake |-> 0, n |-> stcall.n + 1]
                   /\ upstream' = upstream \cup {UpstreamCall("getSlot", 0, TRUE)}
              ELSE /\ stcall' = [pc |-> "limited", wake |-> r.wake, n |-> stcall.n + 1]
                   /\ UNCHANGED upstream
    /\ UNCHANGED <<now, lpc, wake, admitted, status>>
    /\ UNCHANGED <<classVars, retryVars, holderVars, subVars, pipeVars, unsubVars,
                   storageVars>>

\* the setTimeout of the limiter fires: waitForAvailability starts over
StatusResume ==
    /\ stcall.pc = "limited"
    /\ now >= stcall.wake
    /\ StatusAcquire

\* getSlot() returns
ProbeReturns(slot) ==
    /\ stcall.pc = "probe"
    /\ stcall' = [stcall EXCEPT !.pc = "done"]
    /\ status' = Returned(statusOf(slot, subscriptions, requests))
    /\ UNCHANGED <<classVars, limVars, retryVars, holderVars, subVars, pipeVars, unsubVars,
                   storageVars, upstream>>

\* getSlot() raises: the catch block
ProbeThrows ==
    /\ stcall.pc = "probe"
    /\ stcall' = [stcall EXCEPT !.pc = "done"]
    /\ status' = Returned(statusOnError(subscriptions))
    /\ UNCHANGED <<classVars, limVars, retryVars, holderVars, subVars, pipeVars, unsubVars,
                   storageVars, upstream>>

\* time passes until the setTimeout of the call is due
StatusTick ==
    /\ stcall.pc = "limited"
    /\ now < stcall.wake
    /\ now' = stcall.wake
    /\ UNCHANGED <<requests, lpc, wake, admitted>>
    /\ UNCHANGED notLim
    /\ UNCHANGED upstream

\* ------- handleAccountChange, processTransaction, getWalletTransactionHistory

\* getSignaturesForAddress(..., { limit: 5 })
SIGNATURE_LIMIT == 5

\* limit: number = 50
DEFAULT_HISTORY_LIMIT == 50

\* RetryHelper.withRetry(operation, 3, 1000)
RPC_MAX_RETRIES == 3
RPC_BASE_DELAY == 1000

HistoryLimits == {1, DEFAULT_HISTORY_LIMIT}

SigNames == <<"s1", "s2", "s3", "s4", "s5", "s6">>

\* what the upstream holds for a signature: a transaction without meta, a
\* wallet balance that stays at 140, one that rises, one that falls, balances of
\* another owner only
TxSamples(sig) ==
    {ParsedTransaction(sig, FALSE, <<OtherKey>>, <<>>, <<>>),
     ParsedTransaction(sig, TRUE, <<OtherKey>>,
                       <<[owner |-> "W1", mint |-> TOKEN_MINT, uiAmount |-> 140]>>,
                       <<[owner |-> "W1", mint |-> TOKEN_MINT, uiAmount |-> 140]>>),
     ParsedTransaction(sig, TRUE, <<protocols[1].signatures[1]>>,
                       <<[owner |-> "W1", mint |-> TOKEN_MINT, uiAmount |-> 100]>>,
                       <<[owner |-> "W1", mint |-> TOKEN_MINT, uiAmount |-> 140]>>),
     ParsedTransaction(sig, TRUE, <<OtherKey>>,
                       <<[owner |-> "W1", mint |-> TOKEN_MINT, uiAmount |-> 140]>>,
                       <<[owner |-> "W1", mint |-> TOKEN_MINT, uiAmount |-> 100]>>),
     ParsedTransaction(sig, TRUE, <<OtherKey>>,
                       <<[owner |-> "W2", mint |-> TOKEN_MINT, uiAmount |-> 100]>>,
                       <<[owner |-> "W2", mint |-> TOKEN_MINT, uiAmount |-> 140]>>)}

\* getParsedTransaction answers null for a signature it has no transaction for
LedgerEntries(sig) ==
    {[found |-> TRUE, tx |-> t] : t \in TxSamples(sig)}
    \cup {[found |-> FALSE, tx |-> ParsedTransaction(sig, FALSE, <<>>, <<>>, <<>>)]}

\* the errors of the upstream: one of rate limiting, one other
RpcErrors ==
    {e \in Errors : e.message \in {<<"Too", "Many", "Requests">>, <<"fetch", "failed">>}}

\* Math.random() * 1000 at its least: the length of a backoff has both ends in
\* the specification of withRetry alone, and here only its being over counts
RpcJitters == {Min(Jitters)}

IdlePipe ==
    [kind |-> "idle", pc |-> "idle", phase |-> "signatures", limit |-> 0,
     signatures |-> <<>>, i |-> 0, attempt |-> 0, wake |-> 0, failed |-> {},
     events |-> <<>>,
     transactions |-> <<>>, result |-> [kind |-> "none", transactions |-> <<>>]]

\* history: what happened to the signature at position k of the loop, in order
\* ("begin": its iteration starts, "fetched": its fetch returned, "raised": an
\* error came out of its withRetry and was caught,
\* "insert": insertTransaction is called, "inserted": that call resolved,
\* "rejected": that call rejected and the error was caught)
logged(p, e) == [p EXCEPT !.events = Append(@, [e |-> e, k |-> p.i])]

PipeInit ==
    /\ ledgerSigs \in {SubSeq(SigNames, 1, n) : n \in 0..MaxSigs}
    /\ ledgerTx \in [{ledgerSigs[k] : k \in 1..Len(ledgerSigs)} ->
                        UNION {LedgerEntries(ledgerSigs[k]) : k \in 1..Len(ledgerSigs)}]
    /\ \A k \in 1..Len(ledgerSigs) : ledgerTx[ledgerSigs[k]].tx.signature = ledgerSigs[k]
    /\ pl = IdlePipe
    /\ insertCalls = <<>>
    /\ analysed = <<>>

PipeIdle ==
    /\ ledgerSigs = <<>>
    /\ ledgerTx = <<>>
    /\ pl = IdlePipe
    /\ insertCalls = <<>>
    /\ analysed = <<>>

\* the call returns: void for the handler, the list for the history
finished(p, list) ==
    [p EXCEPT !.pc = "done", !.result = [kind |-> "returned", transactions |-> list]]

\* mutant: the loop is left after its first signature
afterSignatureFirstOnly(p) ==
    IF p.i < Min({1, Len(p.signatures)})
    THEN logged([p EXCEPT !.pc = "acquire", !.phase = "transaction", !.i = p.i + 1,
                             !.attempt = 0], "begin")
    ELSE finished(p, p.transactions)

\* mutant: the loop is left once the subscriptions are gone
afterSignatureCancelled(p) ==
    IF p.i < Len(p.signatures) /\ subscriptions # <<>>
    THEN logged([p EXCEPT !.pc = "acquire", !.phase = "transaction", !.i = p.i + 1,
                             !.attempt = 0], "begin")
    ELSE finished(p, p.transactions)

\* for (const signatureInfo of signatures): the next signature, or past the loop
afterSignature(p) ==
    IF p.i < Len(p.signatures)
    THEN logged([p EXCEPT !.pc = "acquire", !.phase = "transaction", !.i = p.i + 1,
                             !.attempt = 0], "begin")
    ELSE finished(p, p.transactions)

\* mutant: no catch block, the error leaves the call
afterThrowUncaught(p) ==
    [p EXCEPT !.pc = "done", !.result = [kind |-> "threw", transactions |-> <<>>]]

\* what a catch block does with an error withRetry lets through: processTransaction
\* logs it and returns, so the handler's loop goes on; handleAccountChange logs
\* it; getWalletTransactionHistory logs it and returns []
afterThrow(p) ==
    IF p.kind = "notify" /\ p.phase = "transaction"
    THEN afterSignature(logged([p EXCEPT !.failed = @ \cup {p.signatures[p.i]}],
                               "raised"))
    ELSE finished(p, <<>>)

\* mutant: a fetch that returns nothing to report is taken for a failure
afterSkipRaises(p) == afterThrow(p)

\* if (!transaction) return, and analyzeTransaction returning null: nothing is
\* raised and nothing handed on, the loop goes on
afterSkip(p) == afterSignature(p)

\* the operation withRetry wraps: getSignaturesForAddress for the signatures,
\* getParsedTransaction for each of them
operationOf(phase) ==
    IF phase = "signatures" THEN "getSignaturesForAddress" ELSE "getParsedTransaction"

\* the account-change callback of a subscription runs handleAccountChange
HandleAccountChange ==
    /\ pl.pc = "idle"
    /\ pl' = [IdlePipe EXCEPT !.kind = "notify", !.pc = "acquire",
                              !.limit = SIGNATURE_LIMIT]
    /\ UNCHANGED <<ledgerSigs, ledgerTx, insertCalls, analysed>>
    /\ UNCHANGED notPipeLim
    /\ UNCHANGED upstream
    /\ UNCHANGED limVars

\* the upstream notifies an account change of W1 on a subscription that is open
Notification ==
    /\ \E l \in live : l.address = "W1"
    /\ HandleAccountChange

\* getWalletTransactionHistory(walletAddress, limit)
GetWalletTransactionHistory(limit) ==
    /\ pl.pc = "idle"
    /\ pl' = [IdlePipe EXCEPT !.kind = "history", !.pc = "acquire", !.limit = limit]
    /\ UNCHANGED <<ledgerSigs, ledgerTx, insertCalls, analysed>>
    /\ UNCHANGED notPipeLim
    /\ UNCHANGED upstream
    /\ UNCHANGED limVars

\* await this.rateLimiter.waitForAvailability(), then withRetry invokes the
\* operation for the first time
PipeAcquire ==
    /\ \/ pl.pc = "acquire"
       \/ pl.pc = "limited" /\ now >= pl.wake
    /\ LET r == waitForAvailability(requests, now)
       IN  /\ requests' = r.requests
           /\ pl' = IF r.admit
                    THEN [pl EXCEPT !.pc = "call", !.attempt = 0, !.wake = 0]
                    ELSE [pl EXCEPT !.pc = "limited", !.wake = r.wake]
    /\ UNCHANGED <<ledgerSigs, ledgerTx, insertCalls, analysed>>
    /\ UNCHANGED <<now, lpc, wake, admitted>>
    /\ UNCHANGED notPipeLim
    /\ upstream' = IF waitForAvailability(requests, now).admit
                    THEN upstream \cup {UpstreamCall(operationOf(pl.phase), 0, TRUE)}
                    ELSE upstream

\* mutant: insertTransaction is called and not awaited
afterInsertCallUnawaited(p) == afterSignature(logged(p, "insert"))

\* await dbManager.insertTransaction(analysis): the loop stands still until the
\* call settles
afterInsertCall(p) == [logged(p, "insert") EXCEPT !.pc = "insert"]

\* mutant: the history hands its records to storage as the handler does
persistsAlways(kind) == TRUE

\* processTransaction awaits dbManager.insertTransaction(analysis);
\* getWalletTransactionHistory does transactions.push(analysis)
persists(kind) == kind = "notify"

\* the operation of withRetry returns: the signatures, or the transaction, which
\* is analysed and handed on
PipeReturns ==
    /\ pl.pc = "call"
    /\ IF pl.phase = "signatures"
       THEN /\ pl' = LET p == [pl EXCEPT !.signatures = slice0(ledgerSigs, pl.limit),
                                         !.i = 0]
                     IN  afterSignature(p)
            /\ UNCHANGED <<insertCalls, analysed>>
       ELSE LET signature == pl.signatures[pl.i]
                transaction == ledgerTx[signature]
                result == analyzeTransaction(transaction.tx, "W1")
                fetched == logged(pl, "fetched")
            IN  IF ~transaction.found
                THEN /\ pl' = afterSkip(fetched)
                     /\ UNCHANGED <<insertCalls, analysed>>
                ELSE /\ analysed' = Append(analysed, [signature |-> signature,
                                                      analysis |-> result])
                     /\ IF result = NullAnalysis
                        THEN pl' = afterSkip(fetched) /\ UNCHANGED insertCalls
                        ELSE IF persists(pl.kind)
                        THEN /\ insertCalls' = Append(insertCalls, result)
                             /\ pl' = afterInsertCall(fetched)
                        ELSE /\ pl' = afterSignature(
                                          [fetched EXCEPT !.transactions = Append(@, result)])
                             /\ UNCHANGED insertCalls
    /\ UNCHANGED <<ledgerSigs, ledgerTx>>
    /\ UNCHANGED notPipeLim
    /\ UNCHANGED upstream
    /\ UNCHANGED limVars

\* the operation of withRetry raises: back off and go on, or let the error through
PipeThrows(error) ==
    /\ pl.pc = "call"
    /\ IF onError(pl.attempt, RPC_MAX_RETRIES, error) = "retry"
       THEN \E jitter \in RpcJitters :
                pl' = [pl EXCEPT !.pc = "backoff",
                                 !.wake = now + backoffDelay(RPC_BASE_DELAY, pl.attempt,
                                                             jitter)]
       ELSE pl' = afterThrow(pl)
    /\ UNCHANGED <<ledgerSigs, ledgerTx, insertCalls, analysed>>
    /\ UNCHANGED notPipeLim
    /\ UNCHANGED upstream
    /\ UNCHANGED limVars

\* the backoff is over: withRetry invokes the operation again, with no
\* waitForAvailability in between
PipeBackoffOver ==
    /\ pl.pc = "backoff"
    /\ now >= pl.wake
    /\ pl' = [pl EXCEPT !.pc = "call", !.attempt = pl.attempt + 1, !.wake = 0]
    /\ UNCHANGED <<ledgerSigs, ledgerTx, insertCalls, analysed>>
    /\ UNCHANGED notPipeLim
    /\ upstream' = upstream \cup
                      {UpstreamCall(operationOf(pl.phase), pl.attempt + 1, FALSE)}
    /\ UNCHANGED limVars

\* await dbManager.insertTransaction(analysis) rejects: the catch block of
\* processTransaction logs the error and the loop goes on
InsertRejects ==
    /\ pl.pc = "insert"
    /\ pl' = afterSignature(logged(pl, "rejected"))
    /\ UNCHANGED <<ledgerSigs, ledgerTx, insertCalls, analysed>>
    /\ UNCHANGED notPipeLim
    /\ UNCHANGED upstream
    /\ UNCHANGED limVars

\* await dbManager.insertTransaction(analysis) resolves
InsertSettles ==
    /\ pl.pc = "insert"
    /\ pl' = afterSignature(logged(pl, "inserted"))
    /\ UNCHANGED <<ledgerSigs, ledgerTx, insertCalls, analysed>>
    /\ UNCHANGED notPipeLim
    /\ UNCHANGED upstream
    /\ UNCHANGED limVars

\* time passes until the setTimeout of the call is due
PipeTick ==
    /\ pl.pc \in {"limited", "backoff"}
    /\ now < pl.wake
    /\ now' = pl.wake
    /\ UNCHANGED <<requests, lpc, wake, admitted>>
    /\ UNCHANGED notLim
    /\ UNCHANGED upstream

\* ------------------------------------------- dbManager.insertTransaction

\* the rows of a table that satisfy a test, in order
RECURSIVE selectRows(_, _, _)
selectRows(table, address, type) ==
    IF table = <<>> THEN <<>>
    ELSE LET rest == selectRows(Tail(table), address, type)
             row == Head(table)
         IN  IF row.wallet_address = address /\ (type = "any" \/ row.type = type)
             THEN <<row>> \o rest
             ELSE rest

\* SUM(amount), 0 for no rows (COALESCE)
RECURSIVE sumAmount(_)
sumAmount(rows) == IF rows = <<>> THEN 0 ELSE Head(rows).amount + sumAmount(Tail(rows))

\* MAX(amount), 0 for no rows (COALESCE)
RECURSIVE maxAmount(_)
maxAmount(rows) ==
    IF rows = <<>> THEN 0
    ELSE LET m == maxAmount(Tail(rows))
         IN  IF Head(rows).amount > m THEN Head(rows).amount ELSE m

\* AVG(amount) as the pair sum, count; 0 for no rows (COALESCE)
avgAmount(rows) ==
    IF rows = <<>> THEN [sum |-> 0, count |-> 1]
    ELSE [sum |-> sumAmount(rows), count |-> Len(rows)]

\* the row INSERT OR REPLACE INTO transactions writes; created_at is left out
transactionRow(transaction) ==
    [signature |-> transaction.signature,
     timestamp |-> transaction.timestamp,
     wallet_address |-> transaction.walletAddress,
     type |-> transaction.type,
     amount |-> transaction.amount,
     protocol |-> transaction.protocol,
     price_impact |-> transaction.priceImpact,
     fee |-> transaction.fee,
     token_price |-> transaction.tokenPrice]

\* the rows whose PRIMARY KEY differs from the signature
RECURSIVE deleteSignature(_, _)
deleteSignature(table, signature) ==
    IF table = <<>> THEN <<>>
    ELSE IF Head(table).signature = signature THEN deleteSignature(Tail(table), signature)
    ELSE <<Head(table)>> \o deleteSignature(Tail(table), signature)

\* mutant: INSERT without OR REPLACE on a table without the PRIMARY KEY
upsertTransactionAppending(table, row) == Append(table, row)

\* INSERT OR REPLACE INTO transactions: signature is the PRIMARY KEY, so a row
\* of the same signature is deleted and the new row is inserted
upsertTransaction(table, row) == Append(deleteSignature(table, row.signature), row)

\* FOREIGN KEY (wallet_address) REFERENCES wallets (address), foreign_keys = ON
foreignKeyHolds(wallets, row) == row.wallet_address \in DOMAIN wallets

\* mutant: the aggregates are counted up by the row written last
updateWalletStatsIncrement(wallets, table, address) ==
    [a \in DOMAIN wallets |->
        IF a # address \/ table = <<>> THEN wallets[a]
        ELSE [wallets[a] EXCEPT
                !.transaction_count = @ + 1,
                !.total_volume = @ + table[Len(table)].amount,
                !.total_buy_volume =
                    @ + (IF table[Len(table)].type = "buy" THEN table[Len(table)].amount ELSE 0),
                !.total_sell_volume =
                    @ + (IF table[Len(table)].type = "sell" THEN table[Len(table)].amount ELSE 0)]]

\* UPDATE wallets SET transaction_count = (SELECT COUNT(*) ...), ... WHERE address = ?
updateWalletStats(wallets, table, address) ==
    [a \in DOMAIN wallets |->
        IF a # address THEN wallets[a]
        ELSE [wallets[a] EXCEPT
                !.transaction_count = Len(selectRows(table, address, "any")),
                !.total_volume = sumAmount(selectRows(table, address, "any")),
                !.total_buy_volume = sumAmount(selectRows(table, address, "buy")),
                !.total_sell_volume = sumAmount(selectRows(table, address, "sell")),
                !.avg_transaction_size = avgAmount(selectRows(table, address, "any")),
                !.largest_transaction = maxAmount(selectRows(table, address, "any"))]]

\* the records the pipeline hands to storage for two signatures of W1 and one
\* of W3, a wallet that is in no holder list
StorageRecords ==
    {analyzeTransaction(t, "W1") : t \in TxSamples("s1") \cup TxSamples("s2")}
    \cup {[analyzeTransaction(t, "W1") EXCEPT !.walletAddress = "W3"] :
             t \in {x \in TxSamples("s3") : analyzeTransaction(x, "W1") # NullAnalysis}}

StorageCalls == 1..NStorageCalls

IdleStorageCall == [pc |-> "idle", transaction |-> NullAnalysis]

StorageIdle ==
    /\ dbTransactions = <<>>
    /\ dbcall = [c \in StorageCalls |-> IdleStorageCall]
    /\ delivered = <<>>

\* insertTransaction(transaction) up to the end of its INSERT OR REPLACE, which
\* raises when the wallet has no row
InsertTransaction(c, transaction) ==
    /\ dbcall[c].pc = "idle"
    /\ Len(delivered) < MaxDeliveries
    /\ IF foreignKeyHolds(dbWallets, transactionRow(transaction))
       THEN /\ dbTransactions' = upsertTransaction(dbTransactions,
                                                   transactionRow(transaction))
            /\ dbcall' = [dbcall EXCEPT ![c] = [pc |-> "stats",
                                                transaction |-> transaction]]
            /\ UNCHANGED delivered
       ELSE /\ delivered' = Append(delivered, [transaction |-> transaction, ok |-> FALSE])
            /\ UNCHANGED <<dbTransactions, dbcall>>
    /\ UNCHANGED holderVars
    /\ UNCHANGED <<classVars, limVars, retryVars, subVars, pipeVars, unsubVars, statusVars,
                   upstream>>

\* await this.updateWalletStats(transaction.walletAddress), then the call returns
UpdateWalletStats(c) ==
    /\ dbcall[c].pc = "stats"
    /\ dbWallets' = updateWalletStats(dbWallets, dbTransactions,
                                      dbcall[c].transaction.walletAddress)
    /\ delivered' = Append(delivered, [transaction |-> dbcall[c].transaction, ok |-> TRUE])
    /\ dbcall' = [dbcall EXCEPT ![c] = IdleStorageCall]
    /\ UNCHANGED <<topHoldersCache, lastTopHolderFetch, hcall, hret, fetchLog, lastAnswer,
                   dbTransactions>>
    /\ UNCHANGED <<classVars, limVars, retryVars, subVars, pipeVars, unsubVars, statusVars,
                   upstream>>

\* ------------------------------------ specification: one analyzeTransaction

ClassInit ==
    /\ tx \in TxInputs(BalanceLists)
    /\ walletAddress = "W1"
    /\ analysis = NullAnalysis
    /\ cphase = "input"

ClassIdle ==
    /\ tx = ParsedTransaction("sig1", FALSE, <<>>, <<>>, <<>>)
    /\ walletAddress = "W1"
    /\ analysis = NullAnalysis
    /\ cphase = "idle"

AnalyzeTransaction ==
    /\ cphase = "input"
    /\ analysis' = analyzeTransaction(tx, walletAddress)
    /\ cphase' = "done"
    /\ UNCHANGED <<tx, walletAddress>>
    /\ UNCHANGED notClass
    /\ UNCHANGED upstream

InitClassify ==
    /\ ClassInit /\ LimInit /\ RetryIdle /\ HolderInit /\ SubInit /\ PipeIdle
    /\ UnsubInit /\ StatusInit /\ StorageIdle /\ upstream = {}

NextClassify == AnalyzeTransaction

SpecClassify == InitClassify /\ [][NextClassify]_vars

\* --------------------------- specification: concurrent callers of the limiter

InitLimiter ==
    /\ LimInit /\ ClassIdle /\ RetryIdle /\ HolderInit /\ SubInit /\ PipeIdle
    /\ UnsubInit /\ StatusInit /\ StorageIdle /\ upstream = {}

NextLimiter ==
    \/ \E c \in Callers : Acquire(c)
    \/ \E c \in Callers : Resume(c)
    \/ Tick
    \/ TimerDue

SpecLimiter == InitLimiter /\ [][NextLimiter]_vars

\* the same callers with time that goes on: the timer of a sleeping caller
\* comes due, and the event loop runs the callback of a timer that is due
SpecLimiterLive ==
    /\ InitLimiter
    /\ [][NextLimiter]_vars
    /\ WF_vars(TimerDue)
    /\ \A c \in Callers : WF_vars(Resume(c))

\* the delta of the transaction under analysis, from its two balance lists
TxDelta == calculateTokenBalanceChange(tx.preTokenBalances, tx.postTokenBalances,
                                       walletAddress)

\* ------------------------------------------ specification: one withRetry call

InitRetry ==
    /\ RetryInit /\ ClassIdle /\ LimInit /\ HolderInit /\ SubInit /\ PipeIdle
    /\ UnsubInit /\ StatusInit /\ StorageIdle /\ upstream = {}

NextRetry ==
    \/ \E value \in Results : OperationReturns(value)
    \/ \E error \in Errors : OperationThrows(error)
    \/ NextAttempt

SpecRetry == InitRetry /\ [][NextRetry]_vars

\* ------------------------------- specification: calls of getTopTokenHolders

InitHolders ==
    /\ HolderInit /\ ClassIdle /\ LimInit /\ RetryIdle /\ SubInit /\ PipeIdle
    /\ UnsubInit /\ StatusInit /\ StorageIdle /\ upstream = {}

NextHolders ==
    \/ \E c \in HolderCalls, limit \in Limits : GetTopTokenHolders(c, limit)
    \/ \E c \in HolderCalls, data \in HolderLists : HolderResponse(c, data)
    \/ \E c \in HolderCalls : HolderFailure(c)
    \/ HolderTick

SpecHolders == InitHolders /\ [][NextHolders]_vars

\* ------------------- specification: calls of subscribeToWalletTransactions

InitSubscribe ==
    /\ SubInit /\ ClassIdle /\ LimInit /\ RetryIdle /\ HolderInit /\ PipeIdle
    /\ UnsubInit /\ StatusInit /\ StorageIdle /\ upstream = {}

NextSubscribe ==
    \/ \E addresses \in SubscribeInputs : StartSubscribe(addresses)
    \/ \E connection \in getConnection : SubscribeAddress(connection)
    \/ SubscribeThrows
    \/ SubscribeWaits
    \/ OtherCallersFillWindow
    \/ SubscribeTick

SpecSubscribe == InitSubscribe /\ [][NextSubscribe]_vars

\* -------- specification: one notification or one history call end to end

InitPipeline ==
    /\ PipeInit /\ ClassIdle /\ LimInit /\ RetryIdle /\ HolderInit /\ SubInit
    /\ UnsubInit /\ StatusInit /\ StorageIdle /\ upstream = {}

NextPipeline ==
    \/ HandleAccountChange
    \/ \E limit \in HistoryLimits : GetWalletTransactionHistory(limit)
    \/ PipeAcquire
    \/ PipeReturns
    \/ \E error \in RpcErrors : PipeThrows(error)
    \/ PipeBackoffOver
    \/ InsertSettles
    \/ InsertRejects
    \/ OtherCallersFillWindow
    \/ PipeTick

SpecPipeline == InitPipeline /\ [][NextPipeline]_vars

\* ------------------------- specification: unsubscribeAll on a tracked map

InitUnsubscribe ==
    /\ \E n \in 0..MaxTracked : \E conn \in [1..n -> connectionPool] : Tracked(n, conn)
    /\ ClassIdle /\ RetryIdle /\ HolderInit /\ PipeIdle /\ UnsubInit /\ StatusInit /\ StorageIdle

NextUnsubscribe ==
    \/ UnsubscribeAll
    \/ CloseReturns
    \/ CloseThrows

SpecUnsubscribe == InitUnsubscribe /\ [][NextUnsubscribe]_vars

\* ------- specification: unsubscribeAll while a notification is being handled

\* the ledgers of a wallet with two signatures, the newer one of a transaction
\* that moved the balance
CancelLedgers ==
    {f \in [{"s1", "s2"} -> LedgerEntries("s1") \cup LedgerEntries("s2")] :
        /\ f["s1"] \in LedgerEntries("s1")
        /\ f["s2"] \in LedgerEntries("s2")
        /\ calculateTokenBalanceChange(f["s1"].tx.preTokenBalances,
                                       f["s1"].tx.postTokenBalances, "W1") # 0}

InitCancel ==
    /\ \E conn \in [1..1 -> connectionPool] : Tracked(1, conn)
    /\ ledgerSigs = <<"s1", "s2">>
    /\ ledgerTx \in CancelLedgers
    /\ pl = IdlePipe
    /\ insertCalls = <<>>
    /\ analysed = <<>>
    /\ ClassIdle /\ RetryIdle /\ HolderInit /\ UnsubInit /\ StatusInit /\ StorageIdle

NextCancel ==
    \/ Notification
    \/ PipeAcquire
    \/ PipeReturns
    \/ \E error \in RpcErrors : PipeThrows(error)
    \/ PipeBackoffOver
    \/ InsertSettles
    \/ InsertRejects
    \/ PipeTick
    \/ UnsubscribeAll
    \/ CloseReturns
    \/ CloseThrows

SpecCancel == InitCancel /\ [][NextCancel]_vars

\* ---------- specification: getConnectionStatus, with unsubscribeAll running

InitStatus ==
    /\ \E n \in 0..MaxTracked : \E conn \in [1..n -> connectionPool] : Tracked(n, conn)
    /\ ClassIdle /\ RetryIdle /\ HolderInit /\ PipeIdle /\ UnsubInit /\ StatusInit /\ StorageIdle

NextStatus ==
    \/ GetConnectionStatus
    \/ StatusResume
    \/ \E slot \in Slots : ProbeReturns(slot)
    \/ ProbeThrows
    \/ StatusTick
    \/ UnsubscribeAll
    \/ CloseReturns
    \/ CloseThrows

SpecStatus == InitStatus /\ [][NextStatus]_vars

\* ------------- specification: records handed to dbManager.insertTransaction

\* the wallets table after a refresh of the holders: empty, or with the row of
\* one holder
InitStorage ==
    /\ \E data \in {l \in HolderLists : Len(l) <= 1} :
          /\ dbWallets = insertWallets(<<>>, [i \in 1..Len(data) |-> toWallet(data[i])])
          /\ topHoldersCache = [i \in 1..Len(data) |-> toWallet(data[i])]
          /\ lastAnswer = data
          /\ fetchLog = IF data = <<>> THEN <<>> ELSE <<0>>
          /\ upstream = IF data = <<>> THEN {} ELSE {UpstreamCall("fetch", 0, FALSE)}
          /\ hret = IF data = <<>> THEN [kind |-> "none"]
                    ELSE [kind |-> "refreshed", limit |-> REFRESH_SLICE,
                          result |-> topHoldersCache]
    /\ lastTopHolderFetch = 0
    /\ hcall = [c \in HolderCalls |-> IdleCall]
    /\ StorageIdle
    /\ ClassIdle /\ LimInit /\ RetryIdle /\ SubInit /\ PipeIdle /\ UnsubInit /\ StatusInit

NextStorage ==
    \/ \E c \in StorageCalls, transaction \in StorageRecords \ {NullAnalysis} :
          InsertTransaction(c, transaction)
    \/ \E c \in StorageCalls : UpdateWalletStats(c)

SpecStorage == InitStorage /\ [][NextStorage]_vars

\* ------ specification: holder refreshes among calls of insertTransaction

\* the service as constructed: no wallet stored, no holder cached; the
\* refreshes are those of the monitoring loop, getTopTokenHolders(60)
InitRefreshStorage ==
    /\ HolderInit /\ StorageIdle
    /\ ClassIdle /\ LimInit /\ RetryIdle /\ SubInit /\ PipeIdle /\ UnsubInit /\ StatusInit
    /\ upstream = {}

\* the upstream answers with no holder or with one; the records are those of
\* one signature of W1, a buy and a sell
NextRefreshStorage ==
    \/ \E c \in HolderCalls : GetTopTokenHolders(c, REFRESH_SLICE)
    \/ \E c \in HolderCalls, data \in {l \in HolderLists : Len(l) <= 1} :
          HolderResponse(c, data)
    \/ HolderTick
    \/ \E c \in StorageCalls,
          transaction \in {r \in StorageRecords \ {NullAnalysis} : r.signature = "s1"} :
          InsertTransaction(c, transaction)
    \/ \E c \in StorageCalls : UpdateWalletStats(c)

SpecRefreshStorage == InitRefreshStorage /\ [][NextRefreshStorage]_vars

\* ---- specification: a subscribe call that starts while unsubscribeAll runs

\* POST /api/monitoring/start while POST /api/monitoring/stop awaits a close:
\* W1 is tracked, every close succeeds
InitInterleaved ==
    /\ \E conn \in [1..1 -> connectionPool] : Tracked(1, conn)
    /\ UnsubInit /\ StatusInit /\ StorageIdle
    /\ ClassIdle /\ RetryIdle /\ HolderInit /\ PipeIdle

NextInterleaved ==
    \/ UnsubscribeAll
    \/ CloseReturns
    \/ \E addresses \in {<<"W1">>, <<"W2">>, <<"W1", "W2">>} :
          ucall.pc = "closing" /\ StartSubscribe(addresses)
    \/ \E connection \in getConnection : SubscribeAddress(connection)
    \/ SubscribeThrows

SpecInterleaved == InitInterleaved /\ [][NextInterleaved]_vars

\* ---- specification: getConnectionStatus among other callers of the limiter

NextOccupancy ==
    \/ \E c \in Callers : Acquire(c)
    \/ \E c \in Callers : Resume(c)
    \/ Tick
    \/ TimerDue
    \/ stcall.n < MaxOccupancyCalls /\ GetConnectionStatus
    \/ StatusResume
    \/ \E slot \in Slots : ProbeReturns(slot)
    \/ ProbeThrows

SpecOccupancy == InitLimiter /\ [][NextOccupancy]_vars

\* ===================================================================== claims

Entry(owner, amount) == [owner |-> owner, mint |-> TOKEN_MINT, uiAmount |-> amount]

\* the delta of the wallet in the transaction the upstream holds for a signature
LedgerDelta(signature) ==
    calculateTokenBalanceChange(ledgerTx[signature].tx.preTokenBalances,
                                ledgerTx[signature].tx.postTokenBalances, "W1")

\* a record that stands for a transaction of non-zero delta, with amount > 0
Emitted(record) ==
    /\ record.kind = "tx"
    /\ record.amount > 0
    /\ LedgerDelta(record.signature) # 0

\* C1: a transaction whose computed delta for the monitored wallet is zero
\* makes analyzeTransaction return nothing, is never handed to
\* insertTransaction by the notification path and is never appended by the
\* history path; every record that is emitted has amount > 0.
C1_ZeroDeltaDiscarded ==
    /\ \A k \in 1..Len(analysed) :
           LedgerDelta(analysed[k].signature) = 0 => analysed[k].analysis = NullAnalysis
    /\ \A k \in 1..Len(insertCalls) : Emitted(insertCalls[k])
    /\ \A k \in 1..Len(pl.transactions) : Emitted(pl.transactions[k])
    /\ \A k \in 1..Len(pl.result.transactions) : Emitted(pl.result.transactions[k])

\* the handler is through a wallet whose newest transaction left the balance
\* at 140 and whose next one moved it: one record was handed on, for the second
C1_Witness ==
    /\ pl.kind = "notify" /\ pl.pc = "done"
    /\ Len(analysed) = 2
    /\ ledgerTx[analysed[1].signature].tx.preTokenBalances = <<Entry("W1", 140)>>
    /\ ledgerTx[analysed[1].signature].tx.postTokenBalances = <<Entry("W1", 140)>>
    /\ analysed[1].analysis = NullAnalysis
    /\ Len(insertCalls) = 1
    /\ insertCalls[1].signature = analysed[2].signature

\* the identifiers the table lists for one protocol
IdsOf(name) ==
    UNION {{protocols[i].signatures[j] : j \in 1..Len(protocols[i].signatures)} :
              i \in {i \in 1..Len(protocols) : protocols[i].name = name}}

\* the transaction under analysis references an identifier of this protocol
References(name) == \E k \in 1..Len(tx.accountKeys) : tx.accountKeys[k] \in IdsOf(name)

\* C2: for a non-zero delta of the monitored wallet the record has direction
\* buy iff the delta is positive (sell otherwise) and amount = abs(delta);
\* pre=100, post=140 gives a buy of 40.
C2_DirectionAndAmount ==
    (cphase = "done" /\ tx.hasMeta /\ TxDelta # 0) =>
        /\ analysis.kind = "tx"
        /\ analysis.type \in {"buy", "sell"}
        /\ (analysis.type = "buy") <=> (TxDelta > 0)
        /\ analysis.amount = Abs(TxDelta)
        /\ (tx.preTokenBalances = <<Entry("W1", 100)>>
              /\ tx.postTokenBalances = <<Entry("W1", 140)>>)
             => (analysis.type = "buy" /\ analysis.amount = 40)

C2_Witness ==
    /\ cphase = "done"
    /\ tx.preTokenBalances = <<Entry("W1", 100)>>
    /\ tx.postTokenBalances = <<Entry("W1", 140)>>
    /\ analysis.kind = "tx"
    /\ analysis.type = "buy"
    /\ analysis.amount = 40

\* C3: detectProtocol returns one of jupiter, raydium, orca, unknown for every
\* list of account keys, and unknown exactly when no key of the transaction
\* is an identifier of the table.
C3_ProtocolTotal ==
    (cphase = "done" /\ analysis.kind = "tx") =>
        /\ analysis.protocol \in {"jupiter", "raydium", "orca", "unknown"}
        /\ (analysis.protocol = "unknown")
             <=> (\A k \in 1..Len(tx.accountKeys) : tx.accountKeys[k] \notin ProtocolKeys)

C3_Witness ==
    /\ cphase = "done"
    /\ analysis.kind = "tx"
    /\ Len(tx.accountKeys) = 2
    /\ tx.accountKeys[1] = OtherKey
    /\ tx.accountKeys[2] = protocols[3].signatures[2]
    /\ analysis.protocol = "orca"

\* C4: when the account keys hold identifiers of two or more protocols the
\* result is the first of them in table order (jupiter, raydium, orca),
\* whatever the order of the keys.
C4_TableOrderWins ==
    (/\ cphase = "done"
     /\ analysis.kind = "tx"
     /\ Cardinality({n \in {"jupiter", "raydium", "orca"} : References(n)}) >= 2) =>
        analysis.protocol = (IF References("jupiter") THEN "jupiter"
                             ELSE IF References("raydium") THEN "raydium"
                             ELSE "orca")

C4_Witness ==
    /\ cphase = "done"
    /\ analysis.kind = "tx"
    /\ tx.accountKeys = <<protocols[3].signatures[1], protocols[2].signatures[2],
                          protocols[1].signatures[2]>>
    /\ analysis.protocol = "jupiter"

RateLimited(i) == ~invocations[i].ok /\ isRateLimitError(invocations[i].error)

\* C6: operation is invoked again only after an error with a rate-limit marker;
\* after any other error, at any attempt, withRetry is over at once, having
\* raised that error, and no backoff was taken for it.
C6_RetryOnlyOnRateLimit ==
    /\ \A i \in 1..Len(invocations) : i < Len(invocations) => RateLimited(i)
    /\ \A i \in 1..Len(invocations) :
          (~invocations[i].ok /\ ~isRateLimitError(invocations[i].error)) =>
              /\ i = Len(invocations)
              /\ rpc = "thrown"
              /\ outcome = [kind |-> "thrown", error |-> invocations[i].error]
              /\ Len(delays) = i - 1

C6_Witness ==
    /\ Len(invocations) = 2
    /\ RateLimited(1)
    /\ invocations[2] = [ok |-> FALSE,
                          error |-> [hasMessage |-> TRUE,
                                     message |-> <<"Too", "Many", "Connections">>]]
    /\ attempt < maxRetries
    /\ rpc = "thrown"

\* C7: when every attempt fails with a rate-limit error, operation is invoked
\* exactly maxRetries + 1 times and the error of the last attempt is raised;
\* operation is never invoked more than maxRetries + 1 times.
C7_BoundedAttempts ==
    /\ Len(invocations) <= maxRetries + 1
    /\ (rpc \in {"thrown", "returned"} /\ \A i \in 1..Len(invocations) : RateLimited(i)) =>
          /\ Len(invocations) = maxRetries + 1
          /\ rpc = "thrown"
          /\ outcome = [kind |-> "thrown", error |-> invocations[maxRetries + 1].error]

C7_Witness ==
    /\ rpc = "thrown"
    /\ maxRetries = 3
    /\ Len(invocations) = 4
    /\ \A i \in 1..4 : RateLimited(i)
    /\ invocations[4].error # invocations[1].error
    /\ outcome.error = invocations[4].error

\* C8: at most one upstream refresh query per freshness window: any two
\* upstream queries are at least HOLDER_TTL ms apart, whatever the number of
\* calls and also when the upstream answers with an empty list.
C8_OneRefreshPerWindow ==
    \A i, j \in 1..Len(fetchLog) :
        i < j => fetchLog[j] - fetchLog[i] >= HOLDER_TTL

\* C9: at every moment there is at most one live subscription per address, and
\* every live subscription is the one the map tracks for its address.
C9_OneLivePerAddress ==
    /\ \A s1, s2 \in live : s1.address = s2.address => s1 = s2
    /\ \A s \in live :
          /\ s.address \in DOMAIN subscriptions
          /\ subscriptions[s.address] = [id |-> s.id, connection |-> s.connection]

\* the addresses the running call failed to subscribe
FailedAttempts == {i \in 1..Len(attempts) : ~attempts[i].ok}

\* C10: a failure to subscribe one address is isolated: the call ends without
\* raising, having tried every address of every batch in order, and tracks
\* besides what was tracked before exactly the addresses that did not fail;
\* n distinct addresses with f failures on an empty map leave n - f tracked.
C10_FailureIsolated ==
    /\ scall.pc # "thrown"
    /\ \A i \in 1..Len(attempts) : attempts[i].address = scall.walletAddresses[i]
    /\ scall.pc = "done" =>
          /\ Len(attempts) = Len(scall.walletAddresses)
          /\ DOMAIN subscriptions =
                trackedBefore \cup {attempts[i].address : i \in 1..Len(attempts) \ FailedAttempts}
          /\ (/\ trackedBefore = {}
              /\ \A i, j \in 1..Len(attempts) :
                    attempts[i].address = attempts[j].address => i = j)
             => Cardinality(DOMAIN subscriptions)
                  = Len(scall.walletAddresses) - Cardinality(FailedAttempts)

\* six addresses, the second one failing: the sixth, of the next batch, is tracked
C10_Witness ==
    /\ scall.pc = "done"
    /\ Len(scall.walletAddresses) = batchSize + 1
    /\ FailedAttempts = {2}
    /\ Cardinality(DOMAIN subscriptions) = batchSize
    /\ WalletList[batchSize + 1] \in DOMAIN subscriptions


\* C11: unsubscribeAll never raises because of a close that failed; a failed
\* close is followed by the closes of the remaining entries, in the order of
\* the map; when the call returns every tracked entry had its close attempted
\* on its own connection and the map is empty, whichever closes failed.
C11_UnsubscribeClearsAll ==
    /\ ucall.pc # "thrown"
    /\ \A k \in 1..Len(closes) :
          /\ closes[k].entry.address = scall.walletAddresses[k]
          /\ [connection |-> closes[k].entry.connection, id |-> closes[k].entry.id,
              address |-> closes[k].entry.address] \in live
             \/ \E j \in 1..k : closes[j].entry = closes[k].entry /\ closes[j].ok
    /\ ucall.pc = "done" =>
          /\ subscriptions = <<>>
          /\ subOrder = <<>>
          /\ Len(closes) = Len(scall.walletAddresses)

\* three tracked addresses, the close of the second failed: the third was
\* closed all the same and the map is empty
C11_Witness ==
    /\ ucall.pc = "done"
    /\ Len(closes) = 3
    /\ closes[1].ok /\ ~closes[2].ok /\ closes[3].ok
    /\ subscriptions = <<>>
    /\ Cardinality(live) = 1

\* the signatures the handler fetched whose transaction the upstream holds with
\* a non-zero delta for the notified address
NonZeroFetched ==
    {k \in 1..Len(pl.signatures) :
        /\ ledgerTx[pl.signatures[k]].found
        /\ ledgerTx[pl.signatures[k]].tx.hasMeta
        /\ LedgerDelta(pl.signatures[k]) # 0}

\* those of them whose getParsedTransaction raised, so that no transaction came
Unfetched == {k \in NonZeroFetched : pl.signatures[k] \in pl.failed}

\* what a record must say for the transaction of its signature
CorrectRecord(record) ==
    LET t == ledgerTx[record.signature].tx
        delta == LedgerDelta(record.signature)
    IN  /\ record.kind = "tx"
        /\ record.walletAddress = "W1"
        /\ record.type = (IF delta > 0 THEN "buy" ELSE "sell")
        /\ record.amount = (IF delta > 0 THEN delta ELSE 0 - delta)
        /\ record.timestamp = t.blockTime * 1000
        /\ record.fee = [lamports |-> t.fee, per |-> LAMPORTS_PER_SOL]
        /\ record.protocol = detectProtocol(t.accountKeys)

\* C12: when the handler of one notification is over, the records handed to
\* storage are as many as the fetched signatures whose transaction came back
\* with a non-zero delta for the notified address: all of those the upstream
\* holds, less the ones whose fetch raised; they come one per signature, in the
\* order of the signatures, and each is correct for its transaction.
C12_OneRecordPerNonZero ==
    /\ \A k \in 1..Len(insertCalls) : CorrectRecord(insertCalls[k])
    /\ \A j, k \in 1..Len(insertCalls) :
          j < k => \E a, b \in 1..Len(pl.signatures) :
                      /\ a < b
                      /\ pl.signatures[a] = insertCalls[j].signature
                      /\ pl.signatures[b] = insertCalls[k].signature
    /\ (pl.kind = "notify" /\ pl.pc = "done") =>
          Len(insertCalls) = Cardinality(NonZeroFetched) - Cardinality(Unfetched)

\* two signatures, both of non-zero delta and both fetched: two records
C12_Witness ==
    /\ pl.kind = "notify" /\ pl.pc = "done"
    /\ Len(pl.signatures) = 2
    /\ Cardinality(NonZeroFetched) = 2
    /\ Unfetched = {}
    /\ Len(insertCalls) = 2
    /\ insertCalls[1].type = "buy" /\ insertCalls[2].type = "sell"

\* C13: every invocation of the operation withRetry wraps, the retries
\* included, comes after a waitForAvailability of its own has returned.
C13_RetriesAdmitted ==
    \A u \in upstream :
        u.call \in {operationOf("signatures"), operationOf("transaction")} => u.admitted

\* C14: no call to the upstream bypasses admission: every call the engine
\* issued, of whatever kind, came after a waitForAvailability had returned for it.
C14_NoBypass == \A u \in upstream : u.admitted = TRUE

\* the cache is non-empty and younger than the freshness threshold
YoungCache == topHoldersCache # <<>> /\ now - lastTopHolderFetch < HOLDER_TTL

\* C15: while the cache is non-empty and younger than 30 s, a call issues no
\* upstream query; a call answered from the cache found it so, returns the
\* first min(limit, cache size) cached entries and leaves the cache, its
\* refresh time and the wallets table as they are.
C15_CacheHit ==
    [][/\ YoungCache => (fetchLog' = fetchLog /\ upstream' = upstream)
       /\ (hret' # hret /\ hret'.kind = "cached") =>
             /\ YoungCache
             /\ Len(hret'.result) = Min({hret'.limit, Len(topHoldersCache)})
             /\ \A i \in 1..Len(hret'.result) : hret'.result[i] = topHoldersCache[i]
             /\ UNCHANGED <<topHoldersCache, lastTopHolderFetch, dbWallets, fetchLog,
                            upstream>>]_vars

\* a call with limit 1 was answered from a cache of two holders, 1 ms before
\* the cache grows stale, after the single query that filled it
C15_Witness ==
    /\ hret.kind = "cached"
    /\ hret.limit = 1
    /\ Len(hret.result) = 1
    /\ Len(topHoldersCache) = 2
    /\ hret.result[1] = topHoldersCache[1]
    /\ now = HOLDER_TTL - 1
    /\ fetchLog = <<0>>

\* C16: a call that refreshed returns the requested slice: at most limit
\* entries, the first limit entries of the snapshot it fetched, which is what
\* a call with the same limit answered from the cache right afterwards returns.
C16_RefreshReturnsSlice ==
    hret.kind = "refreshed" =>
        /\ Len(hret.result) <= hret.limit
        /\ hret.result = slice0(topHoldersCache, hret.limit)

\* C17: the cache is never a mixture of two refreshes: it is empty before the
\* first refresh and afterwards holds, entry for entry and in order, the
\* wallets of the latest upstream answer and nothing else.
C17_CacheIsOneAnswer ==
    /\ Len(topHoldersCache) = Len(lastAnswer)
    /\ \A i \in 1..Len(lastAnswer) :
          /\ topHoldersCache[i].address = lastAnswer[i].Address
          /\ topHoldersCache[i].tokenBalance = lastAnswer[i].Holding
    /\ fetchLog = <<>> => topHoldersCache = <<>>

\* a second refresh answered one holder after a first that answered two others
C17_Witness ==
    /\ Len(fetchLog) = 2
    /\ \A c \in HolderCalls : hcall[c].pc = "idle"
    /\ hret.kind = "refreshed"
    /\ lastAnswer = <<[Address |-> "W2", Holding |-> 3]>>
    /\ Len(topHoldersCache) = 1
    /\ DOMAIN dbWallets = {"W1", "W2"}

\* the map was cleared while a handler was running
ClearedInFlight == ucall.pc = "done" /\ ucall.handler \notin {"idle", "done"}

\* C18: a handler that was running when unsubscribeAll removed the
\* subscription of its address goes on: it ends by returning, having handed to
\* storage a correct record for every transaction of non-zero delta it fetched.
C18_HandlerSurvivesUnsubscribe ==
    ClearedInFlight =>
        /\ \A k \in 1..Len(insertCalls) : CorrectRecord(insertCalls[k])
        /\ pl.pc # "idle"
        /\ pl.pc = "done" =>
              /\ pl.result.kind = "returned"
              /\ {insertCalls[k].signature : k \in 1..Len(insertCalls)}
                    = {pl.signatures[k] : k \in NonZeroFetched \ Unfetched}

\* the map was cleared while the fetch of the signatures was in flight; the
\* handler then went through both signatures and handed on two records
C18_Witness ==
    /\ ClearedInFlight
    /\ ucall.handler = "call"
    /\ closes = <<[entry |-> closes[1].entry, ok |-> TRUE]>>
    /\ live = {}
    /\ pl.pc = "done"
    /\ Len(insertCalls) = 2

\* C19: getWalletTransactionHistory returns its list and persists nothing: no
\* step of the call hands a record to insertTransaction or writes the wallets
\* table, the subscription map or the holder cache.
C19_HistoryPersistsNothing ==
    [][pl'.kind = "history" =>
          UNCHANGED <<insertCalls, dbWallets, subscriptions, subOrder, live,
                      topHoldersCache, lastTopHolderFetch>>]_vars

\* the history of a wallet with two transactions of non-zero delta returned
\* both records, and storage was handed none
C19_Witness ==
    /\ pl.kind = "history" /\ pl.pc = "done"
    /\ pl.limit = DEFAULT_HISTORY_LIMIT
    /\ pl.result.kind = "returned"
    /\ Len(pl.result.transactions) = 2
    /\ \A k \in 1..2 : CorrectRecord(pl.result.transactions[k])
    /\ insertCalls = <<>>

\* C20: every result of getConnectionStatus, the slot probe having succeeded or
\* failed, reports as activeSubscriptions the number of tracked subscriptions
\* and as occupancy the number of requests the limiter has recorded, with the
\* limiter's configured maximum.
C20_StatusReportsState ==
    status.kind = "returned" =>
        /\ status.result.activeSubscriptions = status.tracked
        /\ status.result.rateLimitInfo =
              [requestsInWindow |-> status.recorded, maxRequests |-> maxRequests]

\* the records insertTransaction was handed and stored before it returned
StoredRecords == {delivered[i].transaction : i \in {j \in DOMAIN delivered : delivered[j].ok}}

\* indices of the deliveries of one record that returned
DeliveriesOf(record) ==
    {i \in DOMAIN delivered : delivered[i].ok /\ delivered[i].transaction = record}

\* no call of insertTransaction is between its insert and its return
StorageQuiet == \A c \in StorageCalls : dbcall[c].pc = "idle"

\* every signature was delivered with one content only (duplicates, no rewrites)
DuplicatesOnly ==
    \A r1, r2 \in StoredRecords : r1.signature = r2.signature => r1 = r2

RECURSIVE SumOver(_)
SumOver(records) ==
    IF records = {} THEN 0
    ELSE LET r == CHOOSE x \in records : TRUE
         IN  r.amount + SumOver(records \ {r})

RecordsOf(address, types) ==
    {r \in StoredRecords : r.walletAddress = address /\ r.type \in types}

\* C21: however often a record is delivered to insertTransaction, once all
\* calls have returned the transactions table holds exactly one row for its
\* signature, and the aggregates of its wallet are those of the distinct
\* records delivered, each counted once.
C21_IdempotentUpsert ==
    (StorageQuiet /\ DuplicatesOnly) =>
        /\ Len(dbTransactions) = Cardinality(StoredRecords)
        /\ \A r \in StoredRecords :
              /\ Cardinality({k \in DOMAIN dbTransactions :
                                 dbTransactions[k].signature = r.signature}) = 1
              /\ \E k \in DOMAIN dbTransactions : dbTransactions[k] = transactionRow(r)
        /\ \A a \in DOMAIN dbWallets :
              RecordsOf(a, {"buy", "sell"}) # {} =>
                  /\ dbWallets[a].transaction_count = Cardinality(RecordsOf(a, {"buy", "sell"}))
                  /\ dbWallets[a].total_volume = SumOver(RecordsOf(a, {"buy", "sell"}))
                  /\ dbWallets[a].total_buy_volume = SumOver(RecordsOf(a, {"buy"}))
                  /\ dbWallets[a].total_sell_volume = SumOver(RecordsOf(a, {"sell"}))
                  /\ dbWallets[a].avg_transaction_size =
                         [sum |-> SumOver(RecordsOf(a, {"buy", "sell"})),
                          count |-> Cardinality(RecordsOf(a, {"buy", "sell"}))]
                  /\ \A r \in RecordsOf(a, {"buy", "sell"}) :
                         dbWallets[a].largest_transaction >= r.amount

\* the same record was delivered twice and stored both times, with a second
\* signature stored in between or around it
C21_Witness ==
    /\ StorageQuiet /\ DuplicatesOnly
    /\ \E r \in StoredRecords : Cardinality(DeliveriesOf(r)) = 2
    /\ Cardinality(StoredRecords) = 2
    /\ Len(dbTransactions) = 2

\* the event is in the history of the call before position n
Before(n, e, k) == \E m \in 1..(n - 1) : pl.events[m] = [e |-> e, k |-> k]

\* C22: in one notification the signatures are taken in the order the upstream
\* returned them, and the iteration of a signature starts only after the fetch
\* of the one before it has ended and, when that one was handed to
\* insertTransaction, after that call has settled.
C22_Sequential ==
    pl.kind = "notify" =>
        /\ \A k \in DOMAIN pl.signatures : pl.signatures[k] = ledgerSigs[k]
        /\ \A n \in DOMAIN pl.events :
              pl.events[n].e = "begin" =>
                  /\ \A m \in 1..(n - 1) :
                        pl.events[m].e = "begin" => pl.events[m].k < pl.events[n].k
                  /\ pl.events[n].k > 1 =>
                        /\ Before(n, "begin", pl.events[n].k - 1)
                        /\ \/ Before(n, "fetched", pl.events[n].k - 1)
                           \/ Before(n, "raised", pl.events[n].k - 1)
                        /\ Before(Len(pl.events) + 1, "insert", pl.events[n].k - 1)
                              => \/ Before(n, "inserted", pl.events[n].k - 1)
                                 \/ Before(n, "rejected", pl.events[n].k - 1)

\* a notification with two signatures, the first of them stored, has come to
\* the second
C22_Witness ==
    /\ pl.kind = "notify"
    /\ Before(Len(pl.events) + 1, "inserted", 1)
    /\ Before(Len(pl.events) + 1, "fetched", 2)

\* the entries of a balance list that are of the wallet and of the monitored mint
OwnEntries(balances) ==
    SelectSeq(balances, LAMBDA b : b.owner = walletAddress /\ b.mint = TOKEN_MINT)

\* the balance of one side: of its first own entry, zero without one
Side(balances) ==
    IF OwnEntries(balances) = <<>> THEN 0 ELSE OwnEntries(balances)[1].uiAmount

\* C23: the delta is the post side minus the pre side, each side being the
\* balance of the wallet's own entry for the monitored mint and zero without
\* such an entry, whatever entries of other owners or mints the lists hold; no
\* pre entry and post 40 is a buy of 40, pre 40 and no post entry a sell of 40,
\* and no entry on either side is no event.
C23_DeltaIsPostMinusPre ==
    (cphase = "done" /\ tx.hasMeta) =>
        /\ TxDelta = Side(tx.postTokenBalances) - Side(tx.preTokenBalances)
        /\ TxDelta > 0 => analysis.kind = "tx" /\ analysis.type = "buy"
                          /\ analysis.amount = TxDelta
        /\ TxDelta < 0 => analysis.kind = "tx" /\ analysis.type = "sell"
                          /\ analysis.amount = 0 - TxDelta
        /\ (OwnEntries(tx.preTokenBalances) = <<>> /\ Side(tx.postTokenBalances) = 40)
              => analysis.kind = "tx" /\ analysis.type = "buy" /\ analysis.amount = 40
        /\ (Side(tx.preTokenBalances) = 40 /\ OwnEntries(tx.postTokenBalances) = <<>>)
              => analysis.kind = "tx" /\ analysis.type = "sell" /\ analysis.amount = 40
        /\ (OwnEntries(tx.preTokenBalances) = <<>> /\ OwnEntries(tx.postTokenBalances) = <<>>)
              => analysis = NullAnalysis

\* a buy of 40 from a pre list that holds only another owner's entry
C23_Witness ==
    /\ cphase = "done" /\ tx.hasMeta
    /\ tx.preTokenBalances = <<[owner |-> "W2", mint |-> TOKEN_MINT, uiAmount |-> 100]>>
    /\ Side(tx.postTokenBalances) = 40
    /\ Len(tx.postTokenBalances) = 2
    /\ analysis.kind = "tx" /\ analysis.type = "buy" /\ analysis.amount = 40

\* the event is in the history of the call
Logged(e, k) == Before(Len(pl.events) + 1, e, k)

\* what the upstream holds for the signature at position k is nothing to
\* report: no transaction, one without metadata, or one with no balance entry
\* of the wallet for the monitored mint on either side
NothingToReport(k) ==
    LET entry == ledgerTx[pl.signatures[k]]
        own(list) == {j \in DOMAIN list : list[j].owner = "W1" /\ list[j].mint = TOKEN_MINT}
    IN  \/ ~entry.found
        \/ ~entry.tx.hasMeta
        \/ own(entry.tx.preTokenBalances) = {} /\ own(entry.tx.postTokenBalances) = {}

\* C24: when the fetch of a signature returns and there is nothing to report
\* for it, no error is raised for it, no record of it is handed to storage or
\* put in the returned list, and the call goes straight on to the next
\* signature, or returns when it was the last.
C24_AbsenceIsNoError ==
    \A n \in DOMAIN pl.events :
        (pl.events[n].e = "fetched" /\ NothingToReport(pl.events[n].k)) =>
            LET k == pl.events[n].k
            IN  /\ ~Logged("raised", k) /\ ~Logged("insert", k)
                /\ pl.signatures[k] \notin pl.failed
                /\ \A j \in DOMAIN insertCalls : insertCalls[j].signature # pl.signatures[k]
                /\ \A j \in DOMAIN pl.transactions :
                      pl.transactions[j].signature # pl.signatures[k]
                /\ IF k < Len(pl.signatures)
                   THEN n < Len(pl.events) /\ pl.events[n + 1] = [e |-> "begin", k |-> k + 1]
                   ELSE pl.pc = "done" /\ pl.result.kind = "returned"
                        /\ pl.result.transactions = pl.transactions

\* a notification whose first signature has no transaction has stored the
\* record of its second signature
C24_Witness ==
    /\ pl.kind = "notify" /\ pl.pc = "done"
    /\ Len(pl.signatures) = 2
    /\ ~ledgerTx[pl.signatures[1]].found
    /\ Logged("fetched", 1) /\ Logged("inserted", 2)

\* C25: in a notification an error that comes out of the fetch of one
\* signature's transaction, or out of insertTransaction for it, ends the work
\* on that signature only: the loop goes straight on to the next signature, the
\* call ends only after every signature it was given has had its turn, and no
\* error leaves handleAccountChange, whether it arose for a transaction or for
\* the signatures.
C25_FailureConfined ==
    pl.kind = "notify" =>
        /\ pl.result.kind # "threw"
        /\ \A n \in DOMAIN pl.events :
              pl.events[n].e \in {"raised", "rejected"} =>
                  IF pl.events[n].k < Len(pl.signatures)
                  THEN /\ n < Len(pl.events)
                       /\ pl.events[n + 1] = [e |-> "begin", k |-> pl.events[n].k + 1]
                  ELSE pl.pc = "done"
        /\ pl.pc = "done" =>
              /\ pl.result.kind = "returned"
              /\ \A k \in DOMAIN pl.signatures : Logged("begin", k)

\* the fetch of the first transaction failed after the last retry of a
\* rate-limit error, and the second signature's record was stored
C25_Witness ==
    /\ pl.kind = "notify" /\ pl.pc = "done"
    /\ Logged("raised", 1) /\ Logged("inserted", 2)
    /\ UpstreamCall("getParsedTransaction", RPC_MAX_RETRIES, FALSE) \in upstream

\* an insert call was rejected and the signature after it was still fetched
C25_RejectedInsert ==
    /\ pl.kind = "notify" /\ pl.pc = "done"
    /\ Logged("rejected", 1) /\ Logged("fetched", 2)

\* the fetch of the signatures failed and the call returned
C25_SignaturesFailed ==
    /\ pl.kind = "notify" /\ pl.pc = "done"
    /\ pl.signatures = <<>> /\ ledgerSigs # <<>>
    /\ pl.result.kind = "returned"

\* the records of the first k signatures of the call whose fetch returned a
\* transaction that analyses to a record, in the order of the signatures:
\* what a notification hands to storage for these signatures and responses
RECURSIVE RecordsOfFetched(_)
RecordsOfFetched(k) ==
    IF k = 0 THEN <<>>
    ELSE LET entry == ledgerTx[pl.signatures[k]]
             record == analyzeTransaction(entry.tx, "W1")
         IN  IF Logged("fetched", k) /\ entry.found /\ record # NullAnalysis
             THEN Append(RecordsOfFetched(k - 1), record)
             ELSE RecordsOfFetched(k - 1)

\* a notification that has ended has handed exactly these records to storage
NotificationHandsRecordsOfFetched ==
    (pl.kind = "notify" /\ pl.pc = "done") =>
        insertCalls = RecordsOfFetched(Len(pl.signatures))

\* a history call in which no fetch failed returns exactly these records
HistoryEqualWithoutFailure ==
    (pl.kind = "history" /\ pl.pc = "done"
        /\ \A k \in DOMAIN pl.signatures : Logged("fetched", k)) =>
        pl.result.transactions = RecordsOfFetched(Len(pl.signatures))

\* C26: a history call that has ended returns, in the order of the signatures,
\* exactly the records a notification hands to storage for the same signatures
\* and the same responses of the upstream, also when the fetch of one of the
\* transactions failed.
C26_HistoryEqualsNotification ==
    (pl.kind = "history" /\ pl.pc = "done") =>
        pl.result.transactions = RecordsOfFetched(Len(pl.signatures))

\* C27: an invocation of operation that succeeds is the last one, withRetry
\* has then returned what that invocation resolved to, and every invocation
\* before it failed with a rate-limit error: k failures, at most maxRetries,
\* and k + 1 invocations.
C27_FirstSuccessReturned ==
    /\ \A i \in DOMAIN invocations :
          invocations[i].ok =>
              /\ i = Len(invocations)
              /\ rpc = "returned"
              /\ outcome = [kind |-> "returned", attempt |-> i - 1,
                            value |-> invocations[i].value]
              /\ i - 1 <= maxRetries
              /\ \A j \in 1..(i - 1) : ~invocations[j].ok /\ RateLimited(j)
    /\ rpc = "returned" =>
          /\ invocations # <<>>
          /\ invocations[Len(invocations)].ok

\* two rate-limited attempts, then the third invocation succeeds and its value
\* is returned
C27_Witness ==
    /\ rpc = "returned"
    /\ Len(invocations) = 3
    /\ ~invocations[1].ok /\ ~invocations[2].ok
    /\ outcome.value = "r2"

\* base doubled a times
RECURSIVE Doubled(_, _)
Doubled(base, a) == IF a = 0 THEN base ELSE 2 * Doubled(base, a - 1)

\* C28: the delay taken after failed attempt a is baseDelay * 2^a plus a
\* jitter of at least 0 and less than 1000 ms, so its least value is 1000,
\* 2000, 4000 ms for baseDelay 1000; a delay is taken only between two
\* invocations, none after the last failed attempt.
C28_BackoffDelay ==
    /\ \A a \in 0..(Len(delays) - 1) :
          /\ delays[a + 1] >= Doubled(baseDelay, a)
          /\ delays[a + 1] < Doubled(baseDelay, a) + 1000
          /\ a < Len(invocations) /\ RateLimited(a + 1)
    /\ Len(delays) <= maxRetries
    /\ Len(delays) = IF rpc = "sleep" THEN Len(invocations)
                     ELSE IF rpc = "call" THEN Len(invocations)
                     ELSE Len(invocations) - 1
    /\ (Len(delays) >= 1 /\ baseDelay = 1000) => delays[1] \in 1000..1999
    /\ (Len(delays) >= 2 /\ baseDelay = 1000) => delays[2] \in 2000..2999
    /\ (Len(delays) >= 3 /\ baseDelay = 1000) => delays[3] \in 4000..4999

\* three backoffs at their least, then the fourth attempt fails too and the
\* error is raised without a fourth delay
C28_Witness ==
    /\ rpc = "thrown"
    /\ Len(invocations) = 4
    /\ delays = <<1000, 2000, 4000>>

\* C29: every close unsubscribeAll issues for an address is issued on the pool
\* member that opened the subscription tracked for that address, with the id
\* that member returned for it when it was opened.
C29_CloseOnOriginatingHandle ==
    /\ \A k \in 1..Len(closes) :
          /\ [connection |-> closes[k].entry.connection, id |-> closes[k].entry.id,
              address |-> closes[k].entry.address] \in opened
          /\ closes[k].entry.connection \in connectionPool
    /\ ucall.pc = "closing" =>
          /\ [connection |-> ucall.cur.connection, id |-> ucall.cur.id,
              address |-> ucall.cur.address] \in opened
          /\ subscriptions[ucall.cur.address] =
                 [id |-> ucall.cur.id, connection |-> ucall.cur.connection]

\* three addresses opened on the pool members 2, 3, 2 and each closed on its own
C29_Witness ==
    /\ ucall.pc = "done"
    /\ Len(closes) = 3
    /\ closes[1].entry.connection = 2 /\ closes[1].entry.id = 0
    /\ closes[2].entry.connection = 3 /\ closes[2].entry.id = 0
    /\ closes[3].entry.connection = 2 /\ closes[3].entry.id = 1
    /\ \A k \in 1..3 : closes[k].ok
    /\ live = {}

\* C30: the pool has 3 members, getConnection returns a member of the pool
\* whatever index it draws, and the handle recorded with every tracked
\* subscription, and with every subscription ever opened, is a pool member.
C30_PoolMembersOnly ==
    /\ Cardinality(connectionPool) = 3
    /\ defaultConnection \notin connectionPool
    /\ \A index \in poolIndexes : memberAt(index) \in connectionPool
    /\ getConnection = connectionPool
    /\ \A a \in DOMAIN subscriptions : subscriptions[a].connection \in connectionPool
    /\ \A o \in opened : o.connection \in connectionPool

\* the tracked subscriptions were opened on all three pool members
C30_Witness ==
    /\ scall.pc = "done"
    /\ {subscriptions[a].connection : a \in DOMAIN subscriptions} = connectionPool
    /\ Cardinality(DOMAIN subscriptions) = 3

\* the timestamps of the limiter that are less than timeWindow ms old
InWindow == SelectSeq(requests, LAMBDA t : now - t < timeWindow)

\* C31: a caller of waitForAvailability that finds fewer than maxRequests
\* admissions of the last timeWindow ms is admitted in the turn in which it
\* looks, at the time it looks; a caller is put to sleep only when it finds
\* maxRequests of them, records nothing, and its timer is set to the instant
\* the oldest of them is timeWindow ms old.
C31_SuspendsOnlyAtCapacity ==
    [][/\ admitted' # admitted =>
             /\ Len(InWindow) < maxRequests
             /\ admitted' = Append(admitted, now)
             /\ requests' = Append(InWindow, now)
       /\ \A c \in Callers :
             (lpc'[c] = "sleep" /\ (lpc[c] # "sleep" \/ wake'[c] # wake[c])) =>
                 /\ Len(InWindow) >= maxRequests
                 /\ wake'[c] = InWindow[1] + timeWindow
                 /\ wake'[c] > now
                 /\ admitted' = admitted
                 /\ requests' = InWindow
       /\ \A c \in Callers :
             (lpc[c] = "sleep" /\ lpc'[c] = "idle") =>
                 /\ now >= wake[c]
                 /\ admitted' = Append(admitted, now)
       /\ (Len(InWindow) < maxRequests /\ lpc' # lpc) =>
             /\ admitted' = Append(admitted, now)
             /\ \A c \in Callers : lpc'[c] = "sleep" => lpc[c] = "sleep"
    ]_vars

\* a caller that at instant 999 found three admissions of instant 0 and five
\* of instant 999 sleeps until 1000
C31_Witness ==
    /\ now = timeWindow - 1
    /\ \E c \in Callers : lpc[c] = "sleep" /\ wake[c] = timeWindow
    /\ Len(requests) = maxRequests
    /\ requests[3] = 0
    /\ requests[4] = timeWindow - 1

RowsOf(table, address, types) ==
    {k \in DOMAIN table : table[k].wallet_address = address /\ table[k].type \in types}

\* the amounts of the rows at a set of positions, added up
RECURSIVE SumRows(_, _)
SumRows(table, positions) ==
    IF positions = {} THEN 0
    ELSE LET k == CHOOSE x \in positions : TRUE
         IN  table[k].amount + SumRows(table, positions \ {k})

\* C33: when a call of insertTransaction returns for a wallet that has a row,
\* the wallet's aggregates are those of the transactions stored for it at that
\* moment: the count is the number of its rows, the volume the sum of their
\* amounts, the buy and the sell volume the sums over its buy and its sell rows.
C33_AggregatesRecomputed ==
    [][(Len(delivered') = Len(delivered) + 1 /\ delivered'[Len(delivered')].ok) =>
          LET a == delivered'[Len(delivered')].transaction.walletAddress
          IN  /\ a \in DOMAIN dbWallets
              /\ RowsOf(dbTransactions', a, {"buy", "sell"}) # {}
              /\ dbWallets'[a].transaction_count =
                     Cardinality(RowsOf(dbTransactions', a, {"buy", "sell"}))
              /\ dbWallets'[a].total_volume =
                     SumRows(dbTransactions', RowsOf(dbTransactions', a, {"buy", "sell"}))
              /\ dbWallets'[a].total_buy_volume =
                     SumRows(dbTransactions', RowsOf(dbTransactions', a, {"buy"}))
              /\ dbWallets'[a].total_sell_volume =
                     SumRows(dbTransactions', RowsOf(dbTransactions', a, {"sell"}))
    ]_vars

\* a buy of 40 and a sell of 40 are stored for W1 and counted
C33_Witness ==
    /\ StorageQuiet
    /\ "W1" \in DOMAIN dbWallets
    /\ dbWallets["W1"].transaction_count = 2
    /\ dbWallets["W1"].total_volume = 80
    /\ dbWallets["W1"].total_buy_volume = 40
    /\ dbWallets["W1"].total_sell_volume = 40
    /\ Len(delivered) = 3

\* the records a call has produced so far: handed to storage by a notification,
\* collected by a history call
Produced ==
    {insertCalls[k] : k \in DOMAIN insertCalls}
    \cup {pl.transactions[k] : k \in DOMAIN pl.transactions}

StatsSettled(address) ==
    \A c \in StorageCalls :
        dbcall[c].pc = "stats" => dbcall[c].transaction.walletAddress # address

\* the stored aggregates of a wallet are those of its stored transactions
AggregatesMatch(address) ==
    /\ dbWallets[address].transaction_count =
           Cardinality(RowsOf(dbTransactions, address, {"buy", "sell"}))
    /\ dbWallets[address].total_volume =
           SumRows(dbTransactions, RowsOf(dbTransactions, address, {"buy", "sell"}))

\* without holder refreshes the aggregates of a wallet always match, once the
\* calls of insertTransaction for it have returned
AggregatesMatchWithoutRefresh ==
    \A a \in DOMAIN dbWallets : StatsSettled(a) => AggregatesMatch(a)

\* C35: however holder refreshes and calls of insertTransaction interleave, the
\* stored transaction count and volume of a wallet are the count and the summed
\* amounts of its stored transactions whenever no insertTransaction for it is
\* under way; a refresh that stores the wallet again does not set them to zero.
C35_AggregatesSurviveRefresh ==
    \A a \in DOMAIN dbWallets : StatsSettled(a) => AggregatesMatch(a)

\* the map tracks the subscription under its address with its id and handle
IsTracked(l) ==
    /\ l.address \in DOMAIN subscriptions
    /\ subscriptions[l.address] = [id |-> l.id, connection |-> l.connection]

\* C36: when unsubscribeAll has returned, every close having succeeded, and
\* the subscribe call that overlapped it has ended, every subscription that is
\* live is tracked in the map: the clear of unsubscribeAll has dropped no
\* handle that the subscribe call opened while a close was awaited.
C36_LiveIsTracked ==
    (ucall.pc = "done" /\ scall.pc = "done") => \A l \in live : IsTracked(l)

\* C37: the refresh time of the holder cache never goes back: a refresh that
\* writes the cache and its time was started no earlier than the refresh whose
\* answer the cache held, so of two overlapping refreshes the one started
\* earlier never overwrites what the one started later has written.
C37_LaterRefreshWins ==
    [][(topHoldersCache' # topHoldersCache \/ lastTopHolderFetch' # lastTopHolderFetch)
          => lastTopHolderFetch' >= lastTopHolderFetch]_vars

\* C38: a call of getTopTokenHolders that was waiting for the upstream ends in
\* one of two ways. Either it returns the answer it wrote to the cache under
\* the time it read on entry, or the upstream request or the decoding failed:
\* then the caller gets the error, the cache and its refresh time are what
\* they were, and no wallet row was written.
C38_FailurePropagatesUnchanged ==
    [][\A c \in HolderCalls :
          (hcall[c].pc = "fetching" /\ hcall'[c].pc = "idle")
             => \/ /\ hret'.kind = "refreshed"
                   /\ topHoldersCache' = [i \in 1..Len(lastAnswer') |-> toWallet(lastAnswer'[i])]
                   /\ lastTopHolderFetch' = hcall[c].now
                   /\ hret'.result = slice0(topHoldersCache', REFRESH_SLICE)
                \/ /\ hret'.kind = "thrown"
                   /\ topHoldersCache' = topHoldersCache
                   /\ lastTopHolderFetch' = lastTopHolderFetch
                   /\ dbWallets' = dbWallets]_vars

\* a refresh started at 29999 has filled the cache and the table, and another
\* call that missed has just got the error of its failed request
C38_Witness ==
    /\ hret.kind = "thrown"
    /\ Len(topHoldersCache) > 0
    /\ lastTopHolderFetch = HOLDER_TTL - 1
    /\ DOMAIN dbWallets # {}
    /\ Len(fetchLog) = 2

\* C39: in every reachable state the limiter's list of timestamps has at most
\* maxRequests entries and is in order, oldest first; so the occupancy a result
\* of getConnectionStatus reports is never above the maximum it reports.
C39_WindowBounded ==
    /\ Len(requests) <= maxRequests
    /\ \A i, j \in DOMAIN requests : i < j => requests[i] <= requests[j]
    /\ status.kind = "returned" =>
          status.result.rateLimitInfo.requestsInWindow
             <= status.result.rateLimitInfo.maxRequests

\* the list is full with timestamps of two instants, a caller sleeps on it, and
\* getConnectionStatus, the slot read, has reported the full window
C39_Witness ==
    /\ Len(requests) = maxRequests
    /\ requests[1] = 0
    /\ requests[maxRequests] = timeWindow - 1
    /\ \E c \in Callers : lpc[c] = "sleep"
    /\ status.kind = "returned"
    /\ status.result.rpcConnected
    /\ status.result.rateLimitInfo.requestsInWindow = maxRequests

====
